---- MODULE Spec2Model ----
(***************************************************************************)
(* Model of the music-jobs repository: the Telegram bot of main.py (scrape *)
(* -> filter -> find new -> statistics -> notify -> save) and the          *)
(* collect / clean / push scripts around the SQLite store.                 *)
(*                                                                         *)
(* Text is modelled as a sequence of one-character strings, so that        *)
(* lower-casing, concatenation, substring tests, splitting and slicing are *)
(* computed as Python computes them.                                       *)
(***************************************************************************)
EXTENDS Integers, Sequences, FiniteSets, TLC

(***************************************************************************)
(* Python values                                                           *)
(***************************************************************************)

\* Python's None, as a text value no real text equals.
None == <<"None">>

\* str.lower() on one character.
LowerOf ==
  [A |-> "a", B |-> "b", C |-> "c", D |-> "d", E |-> "e", F |-> "f",
   G |-> "g", H |-> "h", I |-> "i", J |-> "j", K |-> "k", L |-> "l",
   M |-> "m", N |-> "n", O |-> "o", P |-> "p", Q |-> "q", R |-> "r",
   S |-> "s", T |-> "t", U |-> "u", V |-> "v", W |-> "w", X |-> "x",
   Y |-> "y", Z |-> "z"]

lower_char(c) == IF c \in DOMAIN LowerOf THEN LowerOf[c] ELSE c

\* str.lower()
RECURSIVE lower(_)
lower(s) ==
  IF s = <<>> THEN <<>> ELSE <<lower_char(Head(s))>> \o lower(Tail(s))

\* Python's `kw in text` on strings.
contains(kw, text) ==
  \E i \in 0..(Len(text) - Len(kw)) : SubSeq(text, i + 1, i + Len(kw)) = kw

\* str.startswith
startswith(s, prefix) ==
  /\ Len(prefix) <= Len(s)
  /\ SubSeq(s, 1, Len(prefix)) = prefix

IsSpace(c) == c \in {" ", "\t", "\n"}

\* str.strip()
RECURSIVE lstrip(_)
lstrip(s) == IF s # <<>> /\ IsSpace(Head(s)) THEN lstrip(Tail(s)) ELSE s

RECURSIVE rstrip(_)
rstrip(s) ==
  IF s # <<>> /\ IsSpace(s[Len(s)]) THEN rstrip(SubSeq(s, 1, Len(s) - 1)) ELSE s

strip(s) == lstrip(rstrip(s))

\* s.split(',')[0]
RECURSIVE first_segment(_)
first_segment(s) ==
  IF s = <<>> \/ Head(s) = "," THEN <<>>
  ELSE <<Head(s)>> \o first_segment(Tail(s))

\* Python's s[:n] on a list or a string.
take(s, n) == SubSeq(s, 1, IF Len(s) < n THEN Len(s) ELSE n)

\* The set of elements of a list.
Range(s) == {s[i] : i \in 1..Len(s)}

\* dict.get(key, 0) and d[key] = v on a dict modelled as a function.
dict_get(d, key) == IF key \in DOMAIN d THEN d[key] ELSE 0

dict_set(d, key, v) ==
  [k \in DOMAIN d \cup {key} |-> IF k = key THEN v ELSE d[k]]

EmptyDict == [k \in {} |-> 0]

(***************************************************************************)
(* main.py: MusicJobsBot, static configuration                             *)
(***************************************************************************)

\* self.job_categories, in the order of the dict literal.
job_categories ==
  <<
    [category |-> "Production",
     keywords |-> << <<"p","r","o","d","u","c","e","r">>,
                     <<"e","n","g","i","n","e","e","r">>,
                     <<"m","i","x","i","n","g">>,
                     <<"m","a","s","t","e","r","i","n","g">>,
                     <<"s","t","u","d","i","o">>,
                     <<"r","e","c","o","r","d","i","n","g">> >>],
    [category |-> "Performance",
     keywords |-> << <<"m","u","s","i","c","i","a","n">>,
                     <<"a","r","t","i","s","t">>,
                     <<"p","e","r","f","o","r","m","e","r">>,
                     <<"d","j">>,
                     <<"s","i","n","g","e","r">>,
                     <<"b","a","n","d">> >>],
    [category |-> "Business",
     keywords |-> << <<"m","a","n","a","g","e","r">>,
                     <<"a","g","e","n","t">>,
                     <<"m","a","r","k","e","t","i","n","g">>,
                     <<"p","r","o","m","o","t","i","o","n">>,
                     <<"l","a","b","e","l">>,
                     <<"a","&","r">> >>],
    [category |-> "Technical",
     keywords |-> << <<"d","e","v","e","l","o","p","e","r">>,
                     <<"p","r","o","g","r","a","m","m","e","r">>,
                     <<"t","e","c","h">>,
                     <<"s","o","f","t","w","a","r","e">>,
                     <<"s","t","r","e","a","m","i","n","g">> >>],
    [category |-> "Creative",
     keywords |-> << <<"c","o","m","p","o","s","e","r">>,
                     <<"s","o","n","g","w","r","i","t","e","r">>,
                     <<"a","r","r","a","n","g","e","r">>,
                     <<"s","o","u","n","d"," ","d","e","s","i","g","n">> >>],
    [category |-> "Education",
     keywords |-> << <<"t","e","a","c","h","e","r">>,
                     <<"i","n","s","t","r","u","c","t","o","r">>,
                     <<"p","r","o","f","e","s","s","o","r">>,
                     <<"t","u","t","o","r">> >>],
    [category |-> "Live Events",
     keywords |-> << <<"t","o","u","r">>,
                     <<"v","e","n","u","e">>,
                     <<"f","e","s","t","i","v","a","l">>,
                     <<"c","o","n","c","e","r","t">>,
                     <<"p","r","o","d","u","c","t","i","o","n">> >>],
    [category |-> "Media",
     keywords |-> << <<"j","o","u","r","n","a","l","i","s","t">>,
                     <<"w","r","i","t","e","r">>,
                     <<"e","d","i","t","o","r">>,
                     <<"c","o","n","t","e","n","t">>,
                     <<"s","o","c","i","a","l"," ","m","e","d","i","a">> >>]
  >>

\* self.job_sites (the scraper is named by its method; selectors belong to
\* the page parser and are not modelled).
job_sites ==
  <<
    [name |-> "Music Business Worldwide",
     url |-> <<"h","t","t","p","s",":","/","/","j","o","b","s",".","m","u","s","i","c","b","u","s","i","n","e","s","s","w","o","r","l","d","w","i","d","e",".","c","o","m","/">>,
     scraper |-> "scrape_mbw", requires_auth |-> FALSE],
    [name |-> "Entertainment Careers",
     url |-> <<"h","t","t","p","s",":","/","/","w","w","w",".","e","n","t","e","r","t","a","i","n","m","e","n","t","c","a","r","e","e","r","s",".","n","e","t","/","j","o","b","s","/","m","u","s","i","c","/">>,
     scraper |-> "scrape_entertainment_careers", requires_auth |-> FALSE],
    [name |-> "Indeed Music",
     url |-> <<"h","t","t","p","s",":","/","/","w","w","w",".","i","n","d","e","e","d",".","c","o","m","/","q","-","m","u","s","i","c","-","i","n","d","u","s","t","r","y","-","j","o","b","s",".","h","t","m","l">>,
     scraper |-> "scrape_indeed", requires_auth |-> FALSE],
    [name |-> "Music Jobs UK",
     url |-> <<"h","t","t","p","s",":","/","/","u","k",".","m","u","s","i","c","-","j","o","b","s",".","c","o","m","/">>,
     scraper |-> "scrape_generic", requires_auth |-> FALSE],
    [name |-> "LinkedIn Music Jobs",
     url |-> <<"h","t","t","p","s",":","/","/","w","w","w",".","l","i","n","k","e","d","i","n",".","c","o","m","/","j","o","b","s","/","s","e","a","r","c","h","/","?","k","e","y","w","o","r","d","s","=","m","u","s","i","c","%","2","0","i","n","d","u","s","t","r","y">>,
     scraper |-> "scrape_linkedin", requires_auth |-> TRUE]
  >>

SiteNames == {job_sites[i].name : i \in 1..Len(job_sites)}

\* load_config: the default configuration.
max_jobs_per_site == 50

notification_batch_size == 10

DefaultFilters ==
  [keywords |-> <<>>, excluded_keywords |-> <<>>,
   locations |-> <<>>, job_types |-> <<>>]

DefaultConfig ==
  [user_filters |-> DefaultFilters,
   active_sites |-> <<"Music Business Worldwide", "Entertainment Careers",
                      "Indeed Music", "Music Jobs UK">>]

\* load_database / load_stats when no file exists.
EmptyDatabase ==
  [jobs |-> EmptyDict, last_updated |-> None, sources_stats |-> EmptyDict]

\* The data directory before the first save: no file.
NoData == [saved |-> FALSE]

EmptyStats ==
  [total_searches |-> 0, total_jobs_found |-> 0,
   jobs_by_category |-> EmptyDict, jobs_by_location |-> EmptyDict,
   jobs_by_company |-> EmptyDict, daily_stats |-> EmptyDict]

(***************************************************************************)
(* main.py: identity, classification, page parsing                         *)
(***************************************************************************)

\* hashlib.md5(content.encode()).hexdigest()[:16]: the digest is modelled
\* as a collision-free function of the digested text, tagged by algorithm.
md5_16(content) == [prefix |-> <<>>, alg |-> "md5", of |-> content]

generate_job_id(title, company, url) ==
  md5_16(lower(title) \o lower(company) \o url)

\* extract_salary: the first of the salary patterns found in the text.
\* Every pattern needs a "$", a pound sign or one of EUR, GBP, USD; the
\* descriptions used here have none, so no pattern is found.
extract_salary(text) == None

\* Variant of the text: title and description joined with nothing between.
text_without_space(job) == lower(job.title \o job.description)

\* The text categorize_job matches against.
categorize_text(job) == lower(job.title \o <<" ">> \o job.description)

category_matches(c, text) ==
  \E k \in 1..Len(c.keywords) : contains(c.keywords[k], text)

RECURSIVE matching_categories(_, _)
matching_categories(cats, text) ==
  IF cats = <<>> THEN <<>>
  ELSE (IF category_matches(Head(cats), text)
        THEN <<Head(cats).category>> ELSE <<>>)
       \o matching_categories(Tail(cats), text)

or_other(categories) == IF categories = <<>> THEN <<"Other">> ELSE categories

categorize_job(job) ==
  or_other(matching_categories(job_categories, categorize_text(job)))

\* urllib.parse.urljoin for a href that is a path: "/a/b" is resolved
\* against the origin of the base, "a/b" against the directory of the base.
RECURSIVE index_of_nth(_, _, _, _)
index_of_nth(s, ch, n, from) ==
  IF from > Len(s) THEN 0
  ELSE IF s[from] = ch
       THEN (IF n = 1 THEN from ELSE index_of_nth(s, ch, n - 1, from + 1))
       ELSE index_of_nth(s, ch, n, from + 1)

RECURSIVE last_index_of(_, _, _)
last_index_of(s, ch, from) ==
  IF from = 0 THEN 0
  ELSE IF s[from] = ch THEN from ELSE last_index_of(s, ch, from - 1)

urljoin(base, href) ==
  IF startswith(href, <<"/">>)
  THEN SubSeq(base, 1, index_of_nth(base, "/", 3, 1) - 1) \o href
  ELSE SubSeq(base, 1, last_index_of(base, "/", Len(base))) \o href

\* The body of scrape_generic's loop for one container of the page: the
\* list of the (zero or one) Job it appends.  A container gives, for each
\* selector, the element's text or None when select_one finds nothing;
\* link is the href of the link element ("" when it has none).
job_url_of(site, c) ==
  IF c.link # <<>> /\ ~startswith(c.link, <<"h","t","t","p">>)
  THEN urljoin(site.url, c.link)
  ELSE c.link

scrape_container(site, c, t) ==
  IF c.title = None \/ c.link = None THEN <<>>
  ELSE
    LET title == strip(c.title)
        company == IF c.company # None THEN strip(c.company) ELSE <<"U","n","k","n","o","w","n">>
        location == IF c.location # None THEN strip(c.location)
                    ELSE <<"N","o","t"," ","s","p","e","c","i","f","i","e","d">>
        description == IF c.desc # None THEN take(strip(c.desc), 500) ELSE <<>>
        job0 == [id |-> generate_job_id(title, company, job_url_of(site, c)),
                 title |-> title,
                 company |-> company,
                 location |-> location,
                 url |-> job_url_of(site, c),
                 description |-> description,
                 salary |-> IF c.desc # None THEN extract_salary(description)
                            ELSE None,
                 job_type |-> None,
                 posted_date |-> None,
                 source |-> site.name,
                 found_date |-> t,
                 tags |-> <<>>]
    IN << [job0 EXCEPT !.tags = categorize_job(job0)] >>

RECURSIVE scrape_containers(_, _, _)
scrape_containers(site, page, t) ==
  IF page = <<>> THEN <<>>
  ELSE scrape_container(site, Head(page), t)
       \o scrape_containers(site, Tail(page), t)

\* What a fetch ends in: the page, or an exception (requests.get,
\* raise_for_status, the parser).
Fetched(page) == [ok |-> TRUE, page |-> page]

FetchError == [ok |-> FALSE, page |-> <<>>]

\* scrape_generic: any exception of the fetch ends in the empty list.
scrape_generic(site, outcome, t) ==
  IF ~outcome.ok THEN <<>>
  ELSE scrape_containers(site, take(outcome.page, max_jobs_per_site), t)

\* scrape_indeed: the generic scraper, then job_type from the location.
RECURSIVE indeed_post_process(_)
indeed_post_process(jobs) ==
  IF jobs = <<>> THEN <<>>
  ELSE << IF contains(<<"R","e","m","o","t","e">>, Head(jobs).location)
          THEN [Head(jobs) EXCEPT !.job_type = <<"R","e","m","o","t","e">>]
          ELSE Head(jobs) >>
       \o indeed_post_process(Tail(jobs))

scrape_indeed(site, outcome, t) ==
  indeed_post_process(scrape_generic(site, outcome, t))

\* site['scraper'](site)
run_scraper(site, outcome, t) ==
  CASE site.scraper = "scrape_linkedin" -> <<>>
    [] site.scraper = "scrape_indeed" -> scrape_indeed(site, outcome, t)
    [] OTHER -> scrape_generic(site, outcome, t)

(***************************************************************************)
(* main.py: filter_jobs                                                    *)
(***************************************************************************)

\* Python truthiness of an Optional[str].
truthy(s) == s # None /\ s # <<>>

filter_text(job) ==
  lower(job.title \o <<" ">> \o job.company \o <<" ">> \o job.description)

\* any(kw.lower() in job_text for kw in kws)
any_keyword_in(kws, text) ==
  \E i \in 1..Len(kws) : contains(lower(kws[i]), text)

location_match(job, locations) ==
  \E i \in 1..Len(locations) :
     contains(lower(locations[i]), lower(job.location))

\* Variant of the test for the token: in any capitalisation.
remote_in_any_case(locations) ==
  \E i \in 1..Len(locations) : lower(locations[i]) = <<"r","e","m","o","t","e">>

\* `'remote' in filters['locations']`
remote_token(locations) == <<"r","e","m","o","t","e">> \in Range(locations)

\* Variant of the test: a job without a job_type matches every type.
unset_type_matches(job, job_types) ==
  \E i \in 1..Len(job_types) :
     IF truthy(job.job_type)
     THEN contains(lower(job_types[i]), lower(job.job_type))
     ELSE TRUE

\* any(jt.lower() in job.job_type.lower() if job.job_type else False ...)
type_match(job, job_types) ==
  \E i \in 1..Len(job_types) :
     IF truthy(job.job_type)
     THEN contains(lower(job_types[i]), lower(job.job_type))
     ELSE FALSE

\* Variant of the loop body: a job must match a keyword even when no keyword
\* is configured.
passes_keywords_required(job, filters) ==
  /\ any_keyword_in(filters.keywords, filter_text(job))
  /\ ~any_keyword_in(filters.excluded_keywords, filter_text(job))
  /\ (filters.locations = <<>>
        \/ location_match(job, filters.locations)
        \/ remote_token(filters.locations))
  /\ (filters.job_types = <<>> \/ type_match(job, filters.job_types))

\* The body of filter_jobs' loop: FALSE where the code runs `continue`.
passes_filters(job, filters) ==
  IF filters.keywords # <<>>
     /\ ~any_keyword_in(filters.keywords, filter_text(job))
  THEN FALSE
  ELSE IF filters.excluded_keywords # <<>>
          /\ any_keyword_in(filters.excluded_keywords, filter_text(job))
  THEN FALSE
  ELSE IF filters.locations # <<>>
          /\ ~location_match(job, filters.locations)
          /\ ~remote_token(filters.locations)
  THEN FALSE
  ELSE IF filters.job_types # <<>> /\ ~type_match(job, filters.job_types)
  THEN FALSE
  ELSE TRUE

\* Variant of filter_jobs: the user filters are not applied.
no_filtering(jobs, filters) == jobs

RECURSIVE filter_jobs(_, _)
filter_jobs(jobs, filters) ==
  IF jobs = <<>> THEN <<>>
  ELSE (IF passes_filters(Head(jobs), filters) THEN <<Head(jobs)>> ELSE <<>>)
       \o filter_jobs(Tail(jobs), filters)

(***************************************************************************)
(* main.py: update_statistics                                              *)
(***************************************************************************)

RECURSIVE count_categories(_, _)
count_categories(by_category, tags) ==
  IF tags = <<>> THEN by_category
  ELSE count_categories(
         dict_set(by_category, Head(tags), dict_get(by_category, Head(tags)) + 1),
         Tail(tags))

stat_location(job) == strip(first_segment(job.location))

EmptyDay == [jobs_found |-> 0, sources |-> EmptyDict]

count_day(daily, today, source) ==
  LET day == IF today \in DOMAIN daily THEN daily[today] ELSE EmptyDay
  IN dict_set(daily, today,
       [jobs_found |-> day.jobs_found + 1,
        sources |-> dict_set(day.sources, source,
                             dict_get(day.sources, source) + 1)])

\* Variant of update_statistics: the categories and the day are counted, the
\* total is not.
count_without_total(st, job, today) ==
  [st EXCEPT !.jobs_by_category = count_categories(@, job.tags),
             !.daily_stats = count_day(@, today, job.source)]

update_statistics(st, job, today) ==
  [st EXCEPT
     !.total_jobs_found = @ + 1,
     !.jobs_by_category = count_categories(@, job.tags),
     !.jobs_by_location =
        dict_set(@, stat_location(job), dict_get(@, stat_location(job)) + 1),
     !.jobs_by_company =
        dict_set(@, job.company, dict_get(@, job.company) + 1),
     !.daily_stats = count_day(@, today, job.source)]

(***************************************************************************)
(* collect/doors_open.py, collect/musically.py: the rows the collectors    *)
(* build                                                                   *)
(***************************************************************************)

\* hashlib.sha256(key).hexdigest()[:16], modelled like md5_16.
sha256_16(content) == [prefix |-> <<>>, alg |-> "sha256", of |-> content]

\* f"door-{...}" / f"musically-{...}"
with_prefix(prefix, digest) == [digest EXCEPT !.prefix = prefix]

\* doors_open.BASE_URL
BASE_URL == <<"h","t","t","p","s",":","/","/","d","o","o","r","s","o","p","e","n",".","c","o">>

\* doors_open._hash
doors_hash(title, company, city) ==
  sha256_16(lower(title \o <<"|">> \o company \o <<"|">> \o city))

\* musically._hash
musically_hash(url) == sha256_16(url)

\* doors_open.fetch: the row appended for one card of the listing.
doors_row(card) ==
  [job_id |-> with_prefix(<<"d","o","o","r","-">>, doors_hash(card.title, card.company, card.city)),
   title |-> card.title,
   company |-> card.company,
   country |-> <<>>,
   city |-> card.city,
   contract |-> <<>>,
   posted_date |-> card.posted_date,
   source |-> <<"D","o","o","r","s"," ","O","p","e","n">>,
   url |-> BASE_URL \o card.href,
   description |-> card.description]

\* musically.fetch: the row appended for one entry of the feed.
musically_row(e) ==
  [job_id |-> with_prefix(<<"m","u","s","i","c","a","l","l","y","-">>, musically_hash(e.link)),
   title |-> e.title,
   company |-> e.author,
   country |-> <<>>,
   city |-> <<>>,
   contract |-> <<>>,
   posted_date |-> e.published,
   source |-> <<"M","u","s","i","c"," ","A","l","l","y"," ","J","o","b","s">>,
   url |-> e.link,
   description |-> e.summary]

(***************************************************************************)
(* collect/all.py: the collectors run one after the other                  *)
(***************************************************************************)

\* What a collector's fetch() ends in: the rows it returns, or an exception.
Returned(rows) == [ok |-> TRUE, rows |-> rows]

Raised == [ok |-> FALSE, rows |-> <<>>]

\* The names the module has bound when line 4 is evaluated: line 2 imports
\* doors_open.fetch as fetch_doors, and nothing imports fetch_musically.
bound_names == {"fetch_doors"}

\* COLLECTORS = [fetch_doors, fetch_musically,]
COLLECTORS == <<"fetch_doors", "fetch_musically">>

\* The for loop of the __main__ block: all_jobs.extend(fetcher()), the
\* exception of a fetcher caught and printed.
RECURSIVE collect_loop(_, _)
collect_loop(fetchers, outcomes) ==
  IF fetchers = <<>> THEN <<>>
  ELSE (IF outcomes[Head(fetchers)].ok THEN outcomes[Head(fetchers)].rows
        ELSE <<>>)
       \o collect_loop(Tail(fetchers), outcomes)

\* The module run as a script: the list display of line 4 looks its names
\* up, and an unbound name raises NameError there, before the __main__
\* block; else the loop runs and raw_jobs.json is written.
collect_all(outcomes) ==
  IF \E i \in 1..Len(COLLECTORS) : COLLECTORS[i] \notin bound_names
  THEN [exit |-> "NameError", written |-> FALSE, rows |-> <<>>]
  ELSE [exit |-> "done", written |-> TRUE,
        rows |-> collect_loop(COLLECTORS, outcomes)]

(***************************************************************************)
(* process/clean.py: the SQLite store                                      *)
(***************************************************************************)

MANDATORY ==
  {"job_id", "title", "company", "city",
   "posted_date", "source", "url", "description"}

\* ensure_schema on a new file: both tables empty.
EmptySqlite == [jobs |-> <<>>, jobs_fts |-> <<>>]

\* Variant of the schema: job_id without a uniqueness constraint.
no_primary_key(cx, job_id) == FALSE

\* job_id TEXT PRIMARY KEY: an INSERT of a job_id the table holds raises
\* sqlite3.IntegrityError and leaves the table as it was.
primary_key_conflict(cx, job_id) ==
  \E i \in 1..Len(cx.jobs) : cx.jobs[i].job_id = job_id

\* r.get(key, default)
row_get(r, key, default) == IF key \in DOMAIN r THEN r[key] ELSE default

\* INSERT INTO jobs (...) VALUES (...): the new row, inserted_at by default
\* CURRENT_TIMESTAMP, rowid one past the last.
insert_job(cx, r, t) ==
  [cx EXCEPT !.jobs = Append(@,
     [rowid |-> Len(cx.jobs) + 1,
      job_id |-> r["job_id"], title |-> r["title"], company |-> r["company"],
      country |-> row_get(r, "country", <<>>), city |-> r["city"],
      contract |-> row_get(r, "contract", <<>>),
      posted_date |-> r["posted_date"], source |-> r["source"],
      url |-> r["url"], description |-> r["description"],
      score |-> row_get(r, "score", 0),
      inserted_at |-> t])]

\* SELECT last_insert_rowid(); INSERT INTO jobs_fts(rowid, description)
insert_fts(cx, r) ==
  [cx EXCEPT !.jobs_fts = Append(@,
     [rowid |-> Len(cx.jobs), description |-> r["description"]])]

\* A storage fault of one run: the statement of the row at position `at`
\* (the INSERT INTO jobs, or the INSERT INTO jobs_fts) raises exc.
NoFault == [at |-> 0, stmt |-> "none", exc |-> "none"]

\* Variant of the handler: every sqlite3 error is taken for a duplicate.
caught_any_error(exc) == TRUE

\* `except sqlite3.IntegrityError: pass`
caught(exc) == exc = "IntegrityError"

\* What the INSERT INTO jobs of the row raises: the fault of the run, or
\* IntegrityError for a job_id the table holds.
jobs_insert_error(cx, r, i, fault) ==
  IF fault.at = i /\ fault.stmt = "jobs" THEN fault.exc
  ELSE IF primary_key_conflict(cx, r["job_id"]) THEN "IntegrityError"
  ELSE "none"

\* What the INSERT INTO jobs_fts of the row raises.
fts_insert_error(i, fault) ==
  IF fault.at = i /\ fault.stmt = "fts" THEN fault.exc ELSE "none"

\* insert_many: the loop over the rows, carrying the connection (with its
\* open transaction) and new_rows.  An exception the handler does not catch
\* ends the loop and leaves insert_many.
RECURSIVE insert_loop(_, _, _, _, _, _)
insert_loop(cx, rows, new_rows, t, fault, i) ==
  IF i > Len(rows) THEN [cx |-> cx, new_rows |-> new_rows, raised |-> "none"]
  ELSE LET r == rows[i]
           e1 == jobs_insert_error(cx, r, i, fault)
           e2 == fts_insert_error(i, fault)
           inserted == insert_job(cx, r, t)
       IN IF ~(MANDATORY \subseteq DOMAIN r)
          THEN insert_loop(cx, rows, new_rows, t, fault, i + 1)
          ELSE IF e1 # "none"
          THEN IF caught(e1)
               THEN insert_loop(cx, rows, new_rows, t, fault, i + 1)
               ELSE [cx |-> cx, new_rows |-> new_rows, raised |-> e1]
          ELSE IF e2 # "none"
          THEN IF caught(e2)
               THEN insert_loop(inserted, rows, new_rows, t, fault, i + 1)
               ELSE [cx |-> inserted, new_rows |-> new_rows, raised |-> e2]
          ELSE insert_loop(insert_fts(inserted, r), rows,
                           Append(new_rows, r), t, fault, i + 1)

\* Variant of insert_many: every complete row of the input is reported as
\* new, the ones the table already held too.
insert_many_reporting_all(cx, rows, t, fault) ==
  [insert_loop(cx, rows, <<>>, t, fault, 1) EXCEPT
     !.new_rows = SelectSeq(rows, LAMBDA r : MANDATORY \subseteq DOMAIN r)]

insert_many(cx, rows, t, fault) == insert_loop(cx, rows, <<>>, t, fault, 1)

(***************************************************************************)
(* main.py: send_telegram_notification and cmd_report, the long messages   *)
(***************************************************************************)

\* send_telegram_notification: max_length
max_length == 4000

\* cmd_report: the literal of its test and its slices
report_limit == 4000

\* Variant of the slicing: each slice starts one character after the end of
\* the one before.
split_with_gap(message, n) ==
  LET RECURSIVE from(_)
      from(i) ==
        IF i > Len(message) THEN <<>>
        ELSE <<SubSeq(message, i, IF i + n - 1 < Len(message)
                                  THEN i + n - 1 ELSE Len(message))>>
             \o from(i + n + 1)
  IN from(1)

\* [message[i:i+n] for i in range(0, len(message), n)]
split_message(message, n) ==
  LET RECURSIVE from(_)
      from(i) ==
        IF i > Len(message) THEN <<>>
        ELSE <<SubSeq(message, i, IF i + n - 1 < Len(message)
                                  THEN i + n - 1 ELSE Len(message))>>
             \o from(i + n)
  IN from(1)

\* The texts a handler sends for the message: the message itself when it is
\* within the limit, else its slices.
parts_to_send(message, n) ==
  IF Len(message) > n THEN split_message(message, n) ELSE <<message>>

\* cmd_report's first reply.
report_notice == <<"G","e","n","e","r","a","n","d","o"," ","r","e","p","o","r","t","e"," ","s","e","m","a","n","a","l",".",".",".">>

(***************************************************************************)
(* notify/push.py: one message per newly inserted row                      *)
(***************************************************************************)

\* The character U+2026 that snippet appends.
Ellipsis == <<"...">>

\* snippet's default n
snippet_length == 200

\* snippet(txt, n)
snippet(txt, n) ==
  IF Len(txt) > n THEN rstrip(take(txt, n)) \o Ellipsis ELSE txt

\* The text push.main sends for the row j, by the fields it is built from.
push_text(j) ==
  [title |-> j["title"], company |-> j["company"], city |-> j["city"],
   snippet |-> snippet(j["description"], snippet_length), url |-> j["url"]]

\* The texts of the first k rows.
push_texts(rows, k) == [i \in 1..k |-> push_text(rows[i])]

(***************************************************************************)
(* quick_fix.py: the simplified bot                                        *)
(***************************************************************************)

\* main: `db = {'jobs': {}, 'last_run': None}` when data/simple_jobs.json
\* does not exist.
EmptySimpleDb == [jobs |-> EmptyDict, last_run |-> None]

\* quick_fix.scrape_indeed, the body of the loop for one card: the job it
\* appends when the card has a title element.
quick_card(card) ==
  IF card.title = None THEN <<>>
  ELSE << [title |-> strip(card.title),
           company |-> IF card.company # None THEN strip(card.company)
                       ELSE <<"N","/","A">>,
           location |-> IF card.location # None THEN strip(card.location)
                        ELSE <<"R","e","m","o","t","e">>,
           source |-> <<"I","n","d","e","e","d">>] >>

RECURSIVE quick_cards(_)
quick_cards(cards) ==
  IF cards = <<>> THEN <<>>
  ELSE quick_card(Head(cards)) \o quick_cards(Tail(cards))

\* quick_fix.scrape_indeed: the first five cards; [] when the fetch raises.
quick_scrape_indeed(outcome) ==
  IF ~outcome.ok THEN <<>> ELSE quick_cards(take(outcome.page, 5))

\* hashlib.md5(f"{title}{company}").hexdigest()[:8]
quick_job_id(job) ==
  [prefix |-> <<>>, alg |-> "md5[:8]", of |-> job.title \o job.company]

\* main: the loop that identifies the new jobs and stores them.
RECURSIVE quick_find_new(_, _, _)
quick_find_new(db_jobs, jobs, new_jobs) ==
  IF jobs = <<>> THEN [jobs |-> db_jobs, new_jobs |-> new_jobs]
  ELSE IF quick_job_id(Head(jobs)) \in DOMAIN db_jobs
  THEN quick_find_new(db_jobs, Tail(jobs), new_jobs)
  ELSE quick_find_new(dict_set(db_jobs, quick_job_id(Head(jobs)), Head(jobs)),
                      Tail(jobs), Append(new_jobs, Head(jobs)))

\* main: the message, by what it is built from.  With new jobs: the first
\* three and the number of the others; with none: the status message with
\* the size of the database.
quick_message(new_jobs, db_jobs) ==
  IF new_jobs # <<>>
  THEN [kind |-> "new", jobs |-> take(new_jobs, 3),
        more |-> IF Len(new_jobs) > 3 THEN Len(new_jobs) - 3 ELSE 0]
  ELSE [kind |-> "status", total |-> Cardinality(DOMAIN db_jobs)]

(***************************************************************************)
(* Bounds and the environment: what the job sites show                     *)
(***************************************************************************)

\* Searches started in one run of the model.
MaxSearches == 2

\* Clock ticks per calendar day.
TicksPerDay == 2

\* The sites whose pages list postings; the pages of the others are empty.
LiveSites == {"Music Business Worldwide", "Indeed Music"}

\* Postings as a page shows them.  The second is the first one again with
\* other capitalisation and another location, so both get the same id.
Posting1 ==
  [title |-> <<"M","i","x","i","n","g"," ","E","n","g","i","n","e","e","r">>, company |-> <<"A","c","m","e">>,
   location |-> <<"L","o","n","d","o","n",","," ","U","K">>, link |-> <<"h","t","t","p",":","/","/","x","/","1">>, desc |-> None]

Posting2 ==
  [title |-> <<" ","M","I","X","I","N","G"," ","E","N","G","I","N","E","E","R">>, company |-> <<"A","C","M","E">>,
   location |-> <<"R","e","m","o","t","e">>, link |-> <<"h","t","t","p",":","/","/","x","/","1">>, desc |-> None]

Posting3 ==
  [title |-> <<"T","o","u","r"," ","M","a","n","a","g","e","r">>, company |-> None,
   location |-> None, link |-> <<"/","j","o","b","s","/","2">>, desc |-> <<"B","e","r","l","i","n"," ","v","e","n","u","e">>]

\* A container whose title element holds only white space and whose link
\* element has no href attribute.
Posting4 ==
  [title |-> <<" ">>, company |-> <<"A","c","m","e">>,
   location |-> <<"O","s","l","o">>, link |-> <<>>, desc |-> None]

Postings == {Posting1, Posting2, Posting3, Posting4}

\* The pages a live site may show: no posting, one, or the first posting
\* twice over (in both capitalisations) on the same page.
Pages ==
  {<<>>, <<Posting1>>, <<Posting2>>, <<Posting3>>, <<Posting1, Posting2>>}

\* What the fetch of a site can end in.
Outcomes(name) ==
  IF name \in LiveSites
  THEN {Fetched(p) : p \in Pages} \cup {FetchError}
       \cup (IF name = "Indeed Music" THEN {Fetched(<<Posting4>>)} ELSE {})
  ELSE {Fetched(<<>>), FetchError}

\* User filters a stored configuration may hold.
FilterChoices ==
  {DefaultFilters,
   [DefaultFilters EXCEPT !.keywords = << <<"E","n","g","i","n","e","e","r">> >>]}

\* Runs of the pipeline's programs (clean.py, push.py) in one run of the
\* model.
MaxCleanRuns == 3

\* Cards of the Doors Open listing.  The second is the first in another
\* capitalisation under another link; the third is another vacancy.
Card1 ==
  [title |-> <<"M","i","x","i","n","g"," ","E","n","g","i","n","e","e","r">>, company |-> <<"A","c","m","e">>, city |-> <<"L","o","n","d","o","n">>,
   href |-> <<"/","j","o","b","s","/","1">>, posted_date |-> <<"2","0","2","5","-","0","1","-","0","1">>,
   description |-> <<"M","i","x"," ","r","e","c","o","r","d","s">>]

Card2 ==
  [title |-> <<"M","I","X","I","N","G"," ","E","N","G","I","N","E","E","R">>, company |-> <<"A","C","M","E">>, city |-> <<"l","o","n","d","o","n">>,
   href |-> <<"/","j","o","b","s","/","7">>, posted_date |-> <<"2","0","2","5","-","0","1","-","0","2">>,
   description |-> <<"M","i","x"," ","m","o","r","e"," ","r","e","c","o","r","d","s">>]

Card3 ==
  [title |-> <<"T","o","u","r"," ","M","a","n","a","g","e","r">>, company |-> <<"A","c","m","e">>, city |-> <<"B","e","r","l","i","n">>,
   href |-> <<"/","j","o","b","s","/","2">>, posted_date |-> <<"2","0","2","5","-","0","1","-","0","1">>,
   description |-> <<>>]

\* An entry of the Music Ally feed.
Entry1 ==
  [title |-> <<"M","i","x","i","n","g"," ","E","n","g","i","n","e","e","r">>, author |-> <<"A","c","m","e">>,
   link |-> <<"h","t","t","p",":","/","/","x","/","1">>, published |-> <<"2","0","2","5","-","0","1","-","0","1">>,
   summary |-> <<"M","i","x"," ","r","e","c","o","r","d","s">>]

\* A row without url and description.
ShortRow ==
  [job_id |-> with_prefix(<<"d","o","o","r","-">>, doors_hash(<<"R","o","a","d","i","e">>, <<"A","c","m","e">>, <<"O","s","l","o">>)),
   title |-> <<"R","o","a","d","i","e">>, company |-> <<"A","c","m","e">>, city |-> <<"O","s","l","o">>,
   posted_date |-> <<"2","0","2","5","-","0","1","-","0","1">>, source |-> <<"D","o","o","r","s"," ","O","p","e","n">>]

\* The storage faults that can hit one run of clean.py over the rows: none,
\* or an sqlite3.OperationalError (disk full, database locked, disk I/O
\* error) at one statement of one row.
Faults(rows) ==
  {NoFault}
  \cup [at : 1..Len(rows), stmt : {"jobs", "fts"}, exc : {"OperationalError"}]

\* raw_jobs.json: absent, or the rows it holds.
NoFile == [exists |-> FALSE, rows |-> <<>>]
FileOf(rows) == [exists |-> TRUE, rows |-> rows]

RawFiles ==
  {NoFile, FileOf(<<>>),
   FileOf(<<doors_row(Card1)>>),
   FileOf(<<doors_row(Card1), doors_row(Card2)>>),
   FileOf(<<doors_row(Card2), musically_row(Entry1)>>),
   FileOf(<<ShortRow, doors_row(Card3)>>),
   FileOf(<<doors_row(Card3), doors_row(Card1)>>)}

\* Listings of one vacancy page as the three adapters may read them: the
\* title and the company in either capitalisation, the link, the city.
IdTitles == {<<"M","i","x","i","n","g"," ","E","n","g","i","n","e","e","r">>, <<"M","I","X","I","N","G"," ","E","N","G","I","N","E","E","R">>, <<"T","o","u","r"," ","M","a","n","a","g","e","r">>}
IdCompanies == {<<"A","c","m","e">>, <<"A","C","M","E">>}
IdHrefs == {<<"/","j","o","b","s","/","1">>, <<"/","j","o","b","s","/","2">>}
IdCities == {<<"L","o","n","d","o","n">>, <<"B","e","r","l","i","n">>}

Listings ==
  [title : IdTitles, company : IdCompanies, href : IdHrefs, city : IdCities]

\* Two listings show the same logical posting: same title and company up
\* to case, same url.
same_posting(a, b) ==
  /\ lower(a.title) = lower(b.title)
  /\ lower(a.company) = lower(b.company)
  /\ a.href = b.href

\* Runs of quick_fix.py in one run of the model.
MaxQuickRuns == 3

\* Cards of the Indeed page as quick_fix reads them.
QuickCard1 ==
  [title |-> <<"M","i","x","i","n","g"," ","E","n","g","i","n","e","e","r">>, company |-> <<"A","c","m","e">>, location |-> <<"L","o","n","d","o","n">>]

QuickCard2 ==
  [title |-> <<"T","o","u","r"," ","M","a","n","a","g","e","r">>, company |-> None, location |-> None]

QuickCard3 == [title |-> None, company |-> <<"A","c","m","e">>, location |-> <<"O","s","l","o">>]

QuickOutcomes ==
  {FetchError, Fetched(<<>>), Fetched(<<QuickCard1>>), Fetched(<<QuickCard2>>),
   Fetched(<<QuickCard3, QuickCard1>>), Fetched(<<QuickCard1, QuickCard2>>)}

\* What the two collectors' sites answer in one run of collect/all.py.
DoorsOutcomes ==
  {Raised, Returned(<<>>)}
  \cup {Returned(<<doors_row(c)>>) : c \in {Card1, Card2, Card3}}
  \cup {Returned(<<doors_row(c), doors_row(d)>>) : c, d \in {Card1, Card2, Card3}}

MusicallyOutcomes == {Raised, Returned(<<>>), Returned(<<musically_row(Entry1)>>)}

CollectorOutcomes ==
  [fetch_doors : DoorsOutcomes, fetch_musically : MusicallyOutcomes]

\* The configurations data/config.json may hold when the bot starts: the
\* default, with one of the filter choices.
StoredConfigs ==
  {[DefaultConfig EXCEPT !.user_filters = f] : f \in FilterChoices}

\* The default configuration after /sites has left one site active.
OneSiteConfig ==
  [DefaultConfig EXCEPT !.active_sites = <<"Music Business Worldwide">>]

\* Titles and descriptions of the containers given to the categorizer:
\* keywords in either capitalisation, keywords that begin in the title and
\* end in the description, and texts without any keyword.
CatTitles ==
  {<<"A","r","t">>, <<"H","e","a","d"," ","o","f"," ","S","o","u","n","d">>, <<"S","O","C","I","A","L">>, <<"T","o","u","r"," ","M","a","n","a","g","e","r">>, <<" ","S","t","u","d","i","o"," ","T","e","c","h"," ">>,
   <<"N","u","r","s","e">>, <<"D","J">>, <<"S","o","n","g","w","r","i","t","e","r">>}

CatDescriptions ==
  {None, <<"i","s","t">>, <<"d","e","s","i","g","n"," ","l","e","a","d">>, <<"M","e","d","i","a"," ","d","e","s","k">>, <<"F","e","s","t","i","v","a","l"," ","V","e","n","u","e">>,
   <<" "," ">>, <<"D","r","i","v","e","r">>, <<"A","&","R">>}

CatContainers ==
  {[title |-> t, company |-> <<"A","c","m","e">>, location |-> None,
    link |-> <<"/","j","o","b","s","/","1">>, desc |-> d] : t \in CatTitles, d \in CatDescriptions}

\* Jobs given to filter_jobs, as scrape_generic and scrape_indeed build
\* them, and the filters /filters can store.
FilterTitles == {<<"A","u","d","i","o"," ","P","r","o","d","u","c","e","r">>, <<"T","o","u","r"," ","M","a","n","a","g","e","r">>}
FilterCompanies == {<<"A","c","m","e">>, <<"P","r","o","d","u","c","e","r","s"," ","G","u","i","l","d">>}
FilterLocations == {<<"B","e","r","l","i","n">>, <<"R","e","m","o","t","e",","," ","U","K">>, <<"N","o","t"," ","s","p","e","c","i","f","i","e","d">>}
FilterJobTypes == {None, <<"R","e","m","o","t","e">>}

FilterJob(title, company, location, job_type) ==
  [id |-> generate_job_id(title, company, <<"h","t","t","p",":","/","/","x","/","1">>),
   title |-> title, company |-> company, location |-> location,
   url |-> <<"h","t","t","p",":","/","/","x","/","1">>, description |-> <<>>, salary |-> None,
   job_type |-> job_type, posted_date |-> None,
   source |-> "Indeed Music", found_date |-> 0,
   tags |-> categorize_job([title |-> title, description |-> <<>>])]

FilterJobLists ==
  {<<FilterJob(t, c, l, j)>> :
      t \in FilterTitles, c \in FilterCompanies,
      l \in FilterLocations, j \in FilterJobTypes}
  \cup
  {<<FilterJob(<<"T","o","u","r"," ","M","a","n","a","g","e","r">>, <<"A","c","m","e">>, <<"B","e","r","l","i","n">>, None),
     FilterJob(<<"A","u","d","i","o"," ","P","r","o","d","u","c","e","r">>, <<"A","c","m","e">>, l, None),
     FilterJob(<<"T","o","u","r"," ","M","a","n","a","g","e","r">>, <<"A","c","m","e">>, <<"R","e","m","o","t","e",","," ","U","K">>, <<"R","e","m","o","t","e">>)>> :
      l \in FilterLocations}

FilterSettings ==
  [keywords : {<<>>, <<<<"p","r","o","d","u","c","e","r">>>>, <<<<"T","o","u","r">>, <<"a","u","d","i","o">>>>},
   excluded_keywords : {<<>>, <<<<"m","a","n","a","g","e","r">>>>},
   locations : {<<>>, <<<<"r","e","m","o","t","e">>>>, <<<<"R","e","m","o","t","e">>>>, <<<<"b","e","r","l","i","n">>>>,
                <<<<"L","o","n","d","o","n">>, <<"r","e","m","o","t","e">>>>, <<<<"P","a","r","i","s">>, <<"U","K">>>>},
   job_types : {<<>>, <<<<"r","e","m","o","t","e">>>>, <<<<"f","u","l","l">>>>}]

\* The longest message has more than MaxSlices full slices.
MaxSlices == 2

\* The characters messages are written in, repeated in this order.
Glyphs == <<"a","b","c","d","e","f","g">>

\* The message of the given length.
MessageOf(len) == [k \in 1..len |-> Glyphs[((k - 1) % Len(Glyphs)) + 1]]

\* Lengths from one character to just over MaxSlices full slices, with the
\* lengths next to each multiple of the limit.
MessageLengths ==
  {1, 2, 7}
  \cup {k * max_length + d : k \in 1..MaxSlices, d \in {-1, 0, 1}}

Messages == {MessageOf(len) : len \in MessageLengths}

\* datetime.now().strftime('%Y-%m-%d')
Day(t) == t \div TicksPerDay

(***************************************************************************)
(* State                                                                   *)
(***************************************************************************)

VARIABLES
  threads,        \* the threads that run searches: main, and the polling thread
  pc,             \* where each thread is in run_scheduled_search
  now,            \* the clock
  telegram_ok,    \* TG_TOKEN and TG_CHAT_ID are both set
  jobs_db,        \* self.jobs_db
  stats,          \* self.stats
  config,         \* self.config
  all_jobs,       \* per thread: the list scrape_all_sites returned
  filtered_jobs,  \* per thread: the list filter_jobs returned
  new_jobs,       \* per thread: find_new_jobs' new_jobs
  idx,            \* per thread: position of find_new_jobs' loop
  outbox,         \* the new-job batches sent to the chat, in order
  disk,           \* data/jobs_database.json, config.json, statistics.json
  program,        \* the program under way: the bot, the pipeline, or one call
  sqlite,         \* jobs.db: the committed tables jobs and jobs_fts
  raw_jobs_json,  \* raw_jobs.json
  jobs_latest_json, \* jobs_latest.json
  arg,            \* the arguments of the call under way
  ret,            \* what the call returned
  pending,        \* the parts of the message still to send
  chat            \* the texts the Telegram chat received, in order

bot_vars ==
  <<threads, pc, telegram_ok, jobs_db, stats, config,
    all_jobs, filtered_jobs, new_jobs, idx, outbox, disk>>

pipe_vars == <<sqlite, raw_jobs_json, jobs_latest_json>>

call_vars == <<arg, ret>>

send_vars == <<pending, chat>>

vars == <<program, now, bot_vars, pipe_vars, call_vars, send_vars>>

\* No pipeline file on disk yet.
PipeIdle ==
  /\ sqlite = EmptySqlite
  /\ raw_jobs_json = NoFile
  /\ jobs_latest_json = NoFile

\* Nothing sent to the chat, nothing to send.
NothingSent ==
  /\ pending = <<>>
  /\ chat = <<>>

\* No call under way.
NoCall ==
  /\ arg = <<>>
  /\ ret = <<>>
  /\ NothingSent

(***************************************************************************)
(* main.py: one search, step by step                                       *)
(***************************************************************************)

\* MusicJobsBot.__init__ for the threads T, data/config.json being absent or
\* holding one of the given configurations.
BotInit(T, configs) ==
  /\ program = "bot"
  /\ PipeIdle
  /\ NoCall
  /\ threads = T
  /\ pc = [t \in T |-> "idle"]
  /\ now = 0
  /\ telegram_ok \in BOOLEAN
  /\ jobs_db = EmptyDatabase
  /\ stats = EmptyStats
  /\ config \in configs
  /\ all_jobs = [t \in T |-> <<>>]
  /\ filtered_jobs = [t \in T |-> <<>>]
  /\ new_jobs = [t \in T |-> <<>>]
  /\ idx = [t \in T |-> 1]
  /\ outbox = <<>>
  /\ disk = NoData

\* run_scheduled_search, up to the call of scrape_all_sites.
StartSearch(t) ==
  /\ program = "bot"
  /\ pc[t] = "idle"
  /\ stats.total_searches < MaxSearches
  /\ now' = now + 1
  /\ stats' = [stats EXCEPT !.total_searches = @ + 1]
  /\ pc' = [pc EXCEPT ![t] = "scrape"]
  /\ UNCHANGED <<threads, disk, telegram_ok, jobs_db, config, all_jobs,
                 filtered_jobs, new_jobs, idx, outbox>>
  /\ UNCHANGED <<program, pipe_vars, call_vars, send_vars>>

\* The sites scrape_all_sites submits to the executor.
active_sites(cfg) ==
  SelectSeq(job_sites,
            LAMBDA site : site.name \in Range(cfg.active_sites)
                          /\ ~site.requires_auth)

\* The orders in which as_completed can yield n futures.
Orders(n) == Permutations(1..n)

\* What the submitted futures can return, one result per site:
\* site['scraper'](site) for each outcome of the site's fetch.
RECURSIVE future_results(_, _)
future_results(sites, t) ==
  IF sites = <<>> THEN {<<>>}
  ELSE {<<r>> \o rest :
          r \in {run_scraper(Head(sites), o, t) : o \in Outcomes(Head(sites).name)},
          rest \in future_results(Tail(sites), t)}

\* The for loop over as_completed: in completion order, extend all_jobs
\* and write the site's entry of sources_stats.
RECURSIVE extend_all(_, _, _)
extend_all(results, order, k) ==
  IF k > Len(order) THEN <<>>
  ELSE results[order[k]] \o extend_all(results, order, k + 1)

RECURSIVE record_sources(_, _, _, _, _)
record_sources(src, sites, results, t, k) ==
  IF k > Len(sites) THEN src
  ELSE record_sources(
         dict_set(src, sites[k].name,
                  [last_scraped |-> t, jobs_found |-> Len(results[k])]),
         sites, results, t, k + 1)

\* scrape_all_sites for the results the futures of the sites return: the
\* futures complete in some order.
Completed(t, sites, results) ==
  \E jobs \in {extend_all(results, order, 1) : order \in Orders(Len(sites))} :
    /\ all_jobs' = [all_jobs EXCEPT ![t] = jobs]
    /\ jobs_db' = [jobs_db EXCEPT
                     !.sources_stats = record_sources(@, sites, results, now, 1)]

ScrapeAllSites(t) ==
  /\ pc[t] = "scrape"
  /\ \E sites \in {active_sites(config)} :
     \E results \in future_results(sites, now) : Completed(t, sites, results)
  /\ pc' = [pc EXCEPT ![t] = "filter"]
  /\ UNCHANGED <<threads, disk, now, telegram_ok, stats, config,
                 filtered_jobs, new_jobs, idx, outbox>>
  /\ UNCHANGED <<program, pipe_vars, call_vars, send_vars>>

FilterJobs(t) ==
  /\ pc[t] = "filter"
  /\ filtered_jobs' = [filtered_jobs EXCEPT
                         ![t] = filter_jobs(all_jobs[t], config.user_filters)]
  /\ new_jobs' = [new_jobs EXCEPT ![t] = <<>>]
  /\ idx' = [idx EXCEPT ![t] = 1]
  /\ pc' = [pc EXCEPT ![t] = "find"]
  /\ UNCHANGED <<threads, disk, now, telegram_ok, jobs_db, stats, config,
                 all_jobs, outbox>>
  /\ UNCHANGED <<program, pipe_vars, call_vars, send_vars>>

\* Variant of the membership test: no id is ever recognised.
never_known(db, job) == FALSE

\* Variant of the membership test: an id is recognised only when the stored
\* record came from the same source.
known_from_same_source(db, job) ==
  /\ job.id \in DOMAIN db.jobs
  /\ db.jobs[job.id].source = job.source

\* find_new_jobs: `job.id not in self.jobs_db['jobs']`
is_known(db, job) == job.id \in DOMAIN db.jobs

\* Variant of the insertion: the job is reported as new and not stored.
store_nothing(db, job) == db

\* find_new_jobs: self.jobs_db['jobs'][job.id] = asdict(job)
store_job(db, job) == [db EXCEPT !.jobs = dict_set(@, job.id, job)]

\* find_new_jobs: the loop head and the membership test for the next job.
FindCheck(t) ==
  /\ pc[t] = "find"
  /\ IF idx[t] > Len(filtered_jobs[t])
     THEN /\ pc' = [pc EXCEPT ![t] = "notify"]
          /\ idx' = idx
     ELSE IF is_known(jobs_db, filtered_jobs[t][idx[t]])
     THEN /\ pc' = pc
          /\ idx' = [idx EXCEPT ![t] = @ + 1]
     ELSE /\ pc' = [pc EXCEPT ![t] = "insert"]
          /\ idx' = idx
  /\ UNCHANGED <<threads, disk, now, telegram_ok, jobs_db, stats, config,
                 all_jobs, filtered_jobs, new_jobs, outbox>>
  /\ UNCHANGED <<program, pipe_vars, call_vars, send_vars>>

\* find_new_jobs: the body of the `if`, for a job the test found unknown.
FindInsert(t) ==
  /\ pc[t] = "insert"
  /\ LET job == filtered_jobs[t][idx[t]]
     IN /\ jobs_db' = store_job(jobs_db, job)
        /\ new_jobs' = [new_jobs EXCEPT ![t] = Append(@, job)]
        /\ stats' = update_statistics(stats, job, Day(now))
  /\ idx' = [idx EXCEPT ![t] = @ + 1]
  /\ pc' = [pc EXCEPT ![t] = "find"]
  /\ UNCHANGED <<threads, disk, now, telegram_ok, config, all_jobs,
                 filtered_jobs, outbox>>
  /\ UNCHANGED <<program, pipe_vars, call_vars, send_vars>>

\* run_scheduled_search: `if new_jobs:` format the message and send it.
\* send_telegram_notification returns without sending when the token or the
\* chat id is missing, and swallows the error of a failed send.
RECURSIVE job_ids(_)
job_ids(jobs) ==
  IF jobs = <<>> THEN <<>> ELSE <<Head(jobs).id>> \o job_ids(Tail(jobs))

\* Variant of the test: the message is formatted and sent in every cycle.
always_notify(jobs) == TRUE

\* run_scheduled_search: `if new_jobs:`
has_new_jobs(jobs) == jobs # <<>>

\* format_telegram_message: jobs_by_category, a dict in insertion order, as
\* the sequence of its items.  The job is appended to the list of the
\* category, which is created when the category is new.
add_to_category(groups, category, job) ==
  IF \E i \in 1..Len(groups) : groups[i].category = category
  THEN [i \in 1..Len(groups) |->
          IF groups[i].category = category
          THEN [groups[i] EXCEPT !.jobs = Append(@, job)]
          ELSE groups[i]]
  ELSE Append(groups, [category |-> category, jobs |-> <<job>>])

\* `for category in job.tags`
RECURSIVE group_tags(_, _, _)
group_tags(groups, job, k) ==
  IF k > Len(job.tags) THEN groups
  ELSE group_tags(add_to_category(groups, job.tags[k], job), job, k + 1)

\* `for job in jobs[:self.config['notification_batch_size']]`
RECURSIVE group_by_category(_, _, _)
group_by_category(groups, jobs, i) ==
  IF i > Len(jobs) THEN groups
  ELSE group_by_category(group_tags(groups, jobs[i], 1), jobs, i + 1)

\* The lines the message gives one job.
job_entry(job) ==
  [title |-> job.title, company |-> job.company, location |-> job.location,
   salary |-> IF job.salary # None /\ truthy(job.salary) THEN job.salary ELSE None,
   job_type |-> IF job.job_type # None /\ truthy(job.job_type)
                THEN job.job_type ELSE None,
   url |-> job.url, source |-> job.source]

RECURSIVE job_entries(_)
job_entries(jobs) ==
  IF jobs = <<>> THEN <<>>
  ELSE <<job_entry(Head(jobs))>> \o job_entries(Tail(jobs))

\* Variant of the section of one category: the tail counts every job of the
\* category, the ones shown too.
section_counting_all(g) ==
  [category |-> g.category,
   shown |-> job_entries(take(g.jobs, 3)),
   more |-> IF Len(g.jobs) > 3 THEN Len(g.jobs) ELSE 0]

\* The section of one category: `category_jobs[:3]`, and the tail
\* "...y N más en <category>" when the category has more than three jobs
\* (more = 0 stands for no tail).
category_section(g) ==
  [category |-> g.category,
   shown |-> job_entries(take(g.jobs, 3)),
   more |-> IF Len(g.jobs) > 3 THEN Len(g.jobs) - 3 ELSE 0]

\* location_summary, a dict in insertion order, as the sequence of its items.
RECURSIVE count_locations(_, _)
count_locations(summary, jobs) ==
  IF jobs = <<>> THEN summary
  ELSE LET loc == stat_location(Head(jobs))
           seen == \E i \in 1..Len(summary) : summary[i].loc = loc
       IN count_locations(
            IF seen
            THEN [i \in 1..Len(summary) |->
                    IF summary[i].loc = loc
                    THEN [summary[i] EXCEPT !.count = @ + 1]
                    ELSE summary[i]]
            ELSE Append(summary, [loc |-> loc, count |-> 1]),
            Tail(jobs))

\* sorted(..., key=count, reverse=True): a stable sort, so of two locations
\* with the same count the one seen first comes first.
RECURSIVE sorted_by_count(_)
sorted_by_count(s) ==
  IF s = <<>> THEN <<>>
  ELSE LET i == CHOOSE i \in 1..Len(s) :
                  /\ \A j \in 1..Len(s) : s[j].count <= s[i].count
                  /\ \A j \in 1..(i - 1) : s[j].count < s[i].count
       IN <<s[i]>> \o sorted_by_count(SubSeq(s, 1, i - 1)
                                      \o SubSeq(s, i + 1, Len(s)))

\* format_telegram_message, the message as the parts it is made of: the
\* header with the number of jobs found, one section per category, the
\* total line (present when there are more jobs than the batch size) and
\* the three most frequent locations.
format_telegram_message(jobs, batch) ==
  IF jobs = <<>> THEN [kind |-> "no new jobs"]
  ELSE
    LET groups == group_by_category(<<>>, take(jobs, batch), 1)
    IN [kind |-> "new jobs",
        found |-> Len(jobs),
        sections |-> [i \in 1..Len(groups) |-> category_section(groups[i])],
        total |-> IF Len(jobs) > batch THEN <<Len(jobs)>> ELSE <<>>,
        summary |-> take(sorted_by_count(count_locations(<<>>, jobs)), 3)]

\* format_telegram_message: the jobs the message lists.  The first `batch`
\* jobs are grouped by category and each category shows its first three.
listed_jobs(jobs, batch) ==
  LET first == take(jobs, batch)
      earlier(i, c) == {j \in 1..(i - 1) : c \in Range(first[j].tags)}
      shown(i) == \E c \in Range(first[i].tags) : Cardinality(earlier(i, c)) < 3
      RECURSIVE from(_)
      from(i) == IF i > Len(first) THEN <<>>
                 ELSE (IF shown(i) THEN <<first[i]>> ELSE <<>>) \o from(i + 1)
  IN from(1)

Notify(t) ==
  /\ pc[t] = "notify"
  /\ \E delivered \in BOOLEAN :
       outbox' = IF has_new_jobs(new_jobs[t]) /\ telegram_ok /\ delivered
                 THEN Append(outbox,
                             job_ids(listed_jobs(new_jobs[t], notification_batch_size)))
                 ELSE outbox
  /\ pc' = [pc EXCEPT ![t] = "save"]
  /\ UNCHANGED <<threads, disk, now, telegram_ok, jobs_db, stats, config,
                 all_jobs, filtered_jobs, new_jobs, idx>>
  /\ UNCHANGED <<program, pipe_vars, call_vars, send_vars>>

\* save_all_data: last_updated is set and the three files are written;
\* then run_scheduled_search returns.
SaveAllData(t) ==
  /\ pc[t] = "save"
  /\ jobs_db' = [jobs_db EXCEPT !.last_updated = now]
  /\ disk' = [saved |-> TRUE, jobs_database |-> jobs_db',
              config |-> config, statistics |-> stats]
  /\ pc' = [pc EXCEPT ![t] = "idle"]
  /\ UNCHANGED <<threads, now, telegram_ok, stats, config,
                 all_jobs, filtered_jobs, new_jobs, idx, outbox>>
  /\ UNCHANGED <<program, pipe_vars, call_vars, send_vars>>

(***************************************************************************)
(* process/clean.py: one run                                               *)
(***************************************************************************)

\* The bot at rest while another program runs.
NoBot ==
  /\ threads = {}
  /\ pc = <<>>
  /\ jobs_db = EmptyDatabase
  /\ stats = EmptyStats
  /\ config = DefaultConfig
  /\ all_jobs = <<>>
  /\ filtered_jobs = <<>>
  /\ new_jobs = <<>>
  /\ idx = <<>>
  /\ outbox = <<>>

\* No bot, no Telegram credentials in the environment, no data directory.
BotIdle ==
  /\ NoBot
  /\ telegram_ok = FALSE
  /\ disk = NoData

\* The pipeline before its first run: TG_TOKEN and TG_CHAT_ID set or not.
PipeInit ==
  /\ program = "pipeline"
  /\ now = 0
  /\ NoBot
  /\ telegram_ok \in BOOLEAN
  /\ disk = NoData
  /\ NoCall
  /\ sqlite = EmptySqlite
  /\ raw_jobs_json \in RawFiles
  /\ jobs_latest_json = NoFile

\* Between two runs of clean.py, raw_jobs.json is replaced by another file
\* or removed.
WriteRaw ==
  /\ program = "pipeline"
  /\ \E f \in RawFiles \ {raw_jobs_json} : raw_jobs_json' = f
  /\ UNCHANGED <<program, now, bot_vars, sqlite, jobs_latest_json, call_vars, send_vars>>

\* clean.main: return when raw_jobs.json is missing; else insert its rows,
\* commit, and write the newly inserted ones to jobs_latest.json.  An
\* exception that leaves insert_many leaves main before cx.commit(): the
\* process ends and the open transaction is rolled back.
CleanMain ==
  /\ program = "pipeline"
  /\ now < MaxCleanRuns
  /\ now' = now + 1
  /\ IF ~raw_jobs_json.exists
     THEN /\ ret' = <<"clean", "no file">>
          /\ UNCHANGED <<sqlite, jobs_latest_json>>
     ELSE \E fault \in Faults(raw_jobs_json.rows) :
          \E r \in {insert_many(sqlite, raw_jobs_json.rows, now', fault)} :
            IF r.raised = "none"
            THEN /\ sqlite' = r.cx
                 /\ jobs_latest_json' = FileOf(r.new_rows)
                 /\ ret' = <<"clean", "done">>
            ELSE /\ ret' = <<"clean", r.raised, fault.stmt>>
                 /\ UNCHANGED <<sqlite, jobs_latest_json>>
  /\ UNCHANGED <<program, bot_vars, raw_jobs_json, arg, send_vars>>

\* push.main: return when jobs_latest.json is missing, exit when a
\* credential is missing, return silently when the file holds no row; else
\* one message per row.  A send that raises ends the process: the rows
\* before it were sent, the others are not.
Push ==
  /\ program = "pipeline"
  /\ now < MaxCleanRuns
  /\ now' = now + 1
  /\ IF ~jobs_latest_json.exists
     THEN /\ ret' = <<"push", "no file">>
          /\ UNCHANGED chat
     ELSE IF ~telegram_ok
     THEN /\ ret' = <<"push", "exit 1">>
          /\ UNCHANGED chat
     ELSE IF jobs_latest_json.rows = <<>>
     THEN /\ ret' = <<"push", "silent">>
          /\ UNCHANGED chat
     ELSE \E k \in 0..Len(jobs_latest_json.rows) :
            /\ chat' = chat \o push_texts(jobs_latest_json.rows, k)
            /\ ret' = <<"push", IF k = Len(jobs_latest_json.rows)
                                THEN "done" ELSE "raised">>
  /\ UNCHANGED <<program, bot_vars, pipe_vars, arg, pending>>

(***************************************************************************)
(* quick_fix.py: one run                                                   *)
(***************************************************************************)

\* quick_fix.py before its first run: no data/simple_jobs.json.
QuickInit ==
  /\ program = "quick_fix"
  /\ now = 0
  /\ NoBot
  /\ telegram_ok \in BOOLEAN
  /\ disk = NoData
  /\ PipeIdle
  /\ NoCall

\* data/simple_jobs.json as main loads it.
simple_db == IF disk.saved THEN disk.simple_jobs ELSE EmptySimpleDb

\* quick_fix.main: return 1 when a credential is missing; else load the
\* database, scrape, store the new jobs, send the message of the new jobs
\* or the status message, and save the database.  send_telegram_message
\* swallows the exception of a failed post.
QuickFixMain ==
  /\ program = "quick_fix"
  /\ now < MaxQuickRuns
  /\ now' = now + 1
  /\ IF ~telegram_ok
     THEN /\ ret' = <<"quick_fix", "1">>
          /\ UNCHANGED <<disk, chat>>
     ELSE \E outcome \in QuickOutcomes : \E posted \in BOOLEAN :
          \E r \in {quick_find_new(simple_db.jobs, quick_scrape_indeed(outcome), <<>>)} :
            /\ chat' = IF posted
                       THEN Append(chat, quick_message(r.new_jobs, r.jobs))
                       ELSE chat
            /\ disk' = [saved |-> TRUE,
                        simple_jobs |-> [jobs |-> r.jobs, last_run |-> now']]
            /\ ret' = <<"quick_fix", "0">>
  /\ UNCHANGED <<program, threads, pc, telegram_ok, jobs_db, stats, config,
                 all_jobs, filtered_jobs, new_jobs, idx, outbox, pipe_vars,
                 arg, pending>>

(***************************************************************************)
(* The bot with its single search thread, the pipeline, and quick_fix.py    *)
(***************************************************************************)

Init == BotInit({"main"}, StoredConfigs) \/ PipeInit \/ QuickInit

Next ==
  \/ \E t \in threads : StartSearch(t)
  \/ \E t \in threads : ScrapeAllSites(t)
  \/ \E t \in threads : FilterJobs(t)
  \/ \E t \in threads : FindCheck(t)
  \/ \E t \in threads : FindInsert(t)
  \/ \E t \in threads : Notify(t)
  \/ \E t \in threads : SaveAllData(t)
  \/ WriteRaw
  \/ CleanMain
  \/ Push
  \/ QuickFixMain

Spec == Init /\ [][Next]_vars

(***************************************************************************)
(* run_bot: the scheduled search on the main thread, and /search handled   *)
(* on the Telegram polling thread                                          *)
(***************************************************************************)

ConcInit == BotInit({"main", "poll"}, {OneSiteConfig})

ConcNext ==
  \/ \E t \in threads : StartSearch(t)
  \/ \E t \in threads : ScrapeAllSites(t)
  \/ \E t \in threads : FilterJobs(t)
  \/ \E t \in threads : FindCheck(t)
  \/ \E t \in threads : FindInsert(t)
  \/ \E t \in threads : Notify(t)
  \/ \E t \in threads : SaveAllData(t)

SpecConc == ConcInit /\ [][ConcNext]_vars

(***************************************************************************)
(* collect/all.py run as a script                                          *)
(***************************************************************************)

\* raw_jobs.json is absent or left by an earlier run; the sites are about
\* to answer as arg says.
CollectInit ==
  /\ program = "collect"
  /\ now = 0
  /\ BotIdle
  /\ NothingSent
  /\ sqlite = EmptySqlite
  /\ raw_jobs_json \in {NoFile, FileOf(<<>>), FileOf(<<doors_row(Card1)>>)}
  /\ jobs_latest_json = NoFile
  /\ arg \in CollectorOutcomes
  /\ ret = <<>>

\* python collect/all.py, from the first line to the exit of the process.
CollectAll ==
  /\ program = "collect"
  /\ ret = <<>>
  /\ \E r \in {collect_all(arg)} :
       /\ ret' = <<r.exit>>
       /\ raw_jobs_json' = IF r.written THEN FileOf(r.rows) ELSE raw_jobs_json
  /\ UNCHANGED <<program, now, bot_vars, sqlite, jobs_latest_json, arg, send_vars>>

CollectNext == CollectAll

SpecCollect == CollectInit /\ [][CollectNext]_vars

(***************************************************************************)
(* The bot process interrupted and started again                           *)
(***************************************************************************)

\* load_database, load_config, load_stats: the file when it exists, else
\* the default.
load_database(d) == IF d.saved THEN d.jobs_database ELSE EmptyDatabase

load_config(d) == IF d.saved THEN d.config ELSE DefaultConfig

\* A file json.load cannot read: open(file, 'w') has truncated it and the
\* dump did not finish.
Unreadable == [unreadable |-> TRUE]

\* load_stats: the defaults when the file is missing or cannot be read.
load_stats(d) ==
  IF d.saved /\ d.statistics # Unreadable THEN d.statistics ELSE EmptyStats

\* The bot started on the data directory an earlier run left: /sites has
\* left one site active and saved, nothing was found yet.
CrashInit ==
  /\ program = "bot"
  /\ PipeIdle
  /\ NoCall
  /\ threads = {"main"}
  /\ pc = [t \in threads |-> "idle"]
  /\ now = 0
  /\ telegram_ok \in BOOLEAN
  /\ disk = [saved |-> TRUE, jobs_database |-> EmptyDatabase,
             config |-> OneSiteConfig, statistics |-> EmptyStats]
  /\ jobs_db = load_database(disk)
  /\ stats = load_stats(disk)
  /\ config = load_config(disk)
  /\ all_jobs = [t \in threads |-> <<>>]
  /\ filtered_jobs = [t \in threads |-> <<>>]
  /\ new_jobs = [t \in threads |-> <<>>]
  /\ idx = [t \in threads |-> 1]
  /\ outbox = <<>>

\* MusicJobsBot.__init__ in a new process: the three files are loaded, the
\* search of the old process is gone.
Reloaded(t, d) ==
  /\ jobs_db' = load_database(d)
  /\ config' = load_config(d)
  /\ stats' = load_stats(d)
  /\ pc' = [pc EXCEPT ![t] = "idle"]
  /\ all_jobs' = [all_jobs EXCEPT ![t] = <<>>]
  /\ filtered_jobs' = [filtered_jobs EXCEPT ![t] = <<>>]
  /\ new_jobs' = [new_jobs EXCEPT ![t] = <<>>]
  /\ idx' = [idx EXCEPT ![t] = 1]

\* The process is killed during a search (a crash, a cancelled workflow, a
\* power cut) before save_all_data writes, and the bot is started again.
CrashAndRestart(t) ==
  /\ program = "bot"
  /\ pc[t] # "idle"
  /\ Reloaded(t, disk)
  /\ UNCHANGED <<threads, now, telegram_ok, outbox, disk>>
  /\ UNCHANGED <<program, pipe_vars, call_vars, send_vars>>

\* The process is killed inside save_all_data, after jobs_database.json and
\* config.json were written and before statistics.json is, and the bot is
\* started again.
CrashInSave(t) ==
  /\ program = "bot"
  /\ pc[t] = "save"
  /\ disk' = [disk EXCEPT
                !.jobs_database = [jobs_db EXCEPT !.last_updated = now],
                !.config = config]
  /\ Reloaded(t, disk')
  /\ UNCHANGED <<threads, now, telegram_ok, outbox>>
  /\ UNCHANGED <<program, pipe_vars, call_vars, send_vars>>

\* The process is killed inside save_all_data while statistics.json is being
\* written: the file was opened for writing and holds an unfinished dump.
\* The bot is started again.
CrashWritingStats(t) ==
  /\ program = "bot"
  /\ pc[t] = "save"
  /\ disk' = [disk EXCEPT
                !.jobs_database = [jobs_db EXCEPT !.last_updated = now],
                !.config = config,
                !.statistics = Unreadable]
  /\ Reloaded(t, disk')
  /\ UNCHANGED <<threads, now, telegram_ok, outbox>>
  /\ UNCHANGED <<program, pipe_vars, call_vars, send_vars>>

\* The searches of all the processes together are bounded by the clock.
CrashNext ==
  \/ \E t \in threads : now < MaxSearches /\ StartSearch(t)
  \/ \E t \in threads : ScrapeAllSites(t)
  \/ \E t \in threads : FilterJobs(t)
  \/ \E t \in threads : FindCheck(t)
  \/ \E t \in threads : FindInsert(t)
  \/ \E t \in threads : Notify(t)
  \/ \E t \in threads : SaveAllData(t)
  \/ \E t \in threads : CrashAndRestart(t)
  \/ \E t \in threads : CrashInSave(t)
  \/ \E t \in threads : CrashWritingStats(t)

SpecCrash == CrashInit /\ [][CrashNext]_vars

(***************************************************************************)
(* The id each adapter gives a listing                                     *)
(***************************************************************************)

\* A program at rest: no search, no pipeline file, the clock at zero.
AtRest ==
  /\ now = 0
  /\ BotIdle
  /\ PipeIdle
  /\ NothingSent

\* The listing as a card of the Doors Open page.
card_of(l) ==
  [title |-> l.title, company |-> l.company, city |-> l.city,
   href |-> l.href, posted_date |-> <<"2","0","2","5","-","0","1","-","0","1">>, description |-> <<>>]

\* The listing as an entry of the Music Ally feed.
entry_of(l) ==
  [title |-> l.title, author |-> l.company, link |-> BASE_URL \o l.href,
   published |-> <<"2","0","2","5","-","0","1","-","0","1">>, summary |-> <<>>]

IdsInit ==
  /\ program = "ids"
  /\ AtRest
  /\ arg \in Listings
  /\ ret = EmptyDict

\* scrape_generic's call of generate_job_id for the listing.
GenerateJobId ==
  /\ program = "ids"
  /\ ret' = dict_set(ret, "main",
                      generate_job_id(arg.title, arg.company, BASE_URL \o arg.href))
  /\ UNCHANGED <<program, now, bot_vars, pipe_vars, send_vars, arg>>

\* doors_open.fetch's job_id for the listing.
DoorsOpenId ==
  /\ program = "ids"
  /\ ret' = dict_set(ret, "doors_open", doors_row(card_of(arg)).job_id)
  /\ UNCHANGED <<program, now, bot_vars, pipe_vars, send_vars, arg>>

\* musically.fetch's job_id for the listing.
MusicallyId ==
  /\ program = "ids"
  /\ ret' = dict_set(ret, "musically", musically_row(entry_of(arg)).job_id)
  /\ UNCHANGED <<program, now, bot_vars, pipe_vars, send_vars, arg>>

\* The same logical posting read once more, in another capitalisation or
\* with another city.
ReadAgain ==
  /\ program = "ids"
  /\ \E l \in Listings \ {arg} : same_posting(l, arg) /\ arg' = l
  /\ UNCHANGED <<program, now, bot_vars, pipe_vars, send_vars, ret>>

IdsNext ==
  \/ GenerateJobId
  \/ DoorsOpenId
  \/ MusicallyId
  \/ ReadAgain

SpecIds == IdsInit /\ [][IdsNext]_vars

(***************************************************************************)
(* scrape_generic on one container: the record and its tags                *)
(***************************************************************************)

CategorizeInit ==
  /\ program = "categorize"
  /\ AtRest
  /\ arg \in CatContainers
  /\ ret = <<>>

\* The body of scrape_generic's loop for the container: the Job built, its
\* id, its description and its tags.
ScrapeContainer ==
  /\ program = "categorize"
  /\ ret = <<>>
  /\ \E site \in Range(job_sites) : ret' = scrape_container(site, arg, now)
  /\ UNCHANGED <<program, now, bot_vars, pipe_vars, send_vars, arg>>

CategorizeNext == ScrapeContainer

SpecCategorize == CategorizeInit /\ [][CategorizeNext]_vars

(***************************************************************************)
(* filter_jobs on one scraped list                                         *)
(***************************************************************************)

\* A search that has scraped its list and is about to filter it.
FilterInit ==
  /\ program = "filter"
  /\ now = 0
  /\ PipeIdle
  /\ NoCall
  /\ threads = {"main"}
  /\ pc = [t \in threads |-> "filter"]
  /\ telegram_ok = FALSE
  /\ jobs_db = EmptyDatabase
  /\ stats = EmptyStats
  /\ config \in {[DefaultConfig EXCEPT !.user_filters = f] : f \in FilterSettings}
  /\ all_jobs \in {[t \in threads |-> jobs] : jobs \in FilterJobLists}
  /\ filtered_jobs = [t \in threads |-> <<>>]
  /\ new_jobs = [t \in threads |-> <<>>]
  /\ idx = [t \in threads |-> 1]
  /\ outbox = <<>>
  /\ disk = NoData

FilterNext == \E t \in threads : FilterJobs(t)

SpecFilter == FilterInit /\ [][FilterNext]_vars

(***************************************************************************)
(* One message through send_telegram_notification or cmd_report            *)
(***************************************************************************)

Handlers == {"send_telegram_notification", "cmd_report"}

NotifyInit ==
  /\ program = "notify"
  /\ now = 0
  /\ PipeIdle
  /\ NothingSent
  /\ arg \in [handler : Handlers, message : Messages]
  /\ ret = <<>>
  /\ threads = {"main"}
  /\ pc = [t \in threads |-> "call"]
  /\ telegram_ok \in BOOLEAN
  /\ jobs_db = EmptyDatabase
  /\ stats = EmptyStats
  /\ config = DefaultConfig
  /\ all_jobs = [t \in threads |-> <<>>]
  /\ filtered_jobs = [t \in threads |-> <<>>]
  /\ new_jobs = [t \in threads |-> <<>>]
  /\ idx = [t \in threads |-> 1]
  /\ outbox = <<>>
  /\ disk = NoData

\* send_telegram_notification up to the first send: return when the token
\* or the chat id is missing, else slice the message.
SendNotification(t) ==
  /\ program = "notify"
  /\ pc[t] = "call"
  /\ arg.handler = "send_telegram_notification"
  /\ IF ~telegram_ok
     THEN /\ pc' = [pc EXCEPT ![t] = "returned"]
          /\ UNCHANGED pending
     ELSE /\ pc' = [pc EXCEPT ![t] = "sending"]
          /\ pending' = parts_to_send(arg.message, max_length)
  /\ UNCHANGED <<program, now, threads, disk, telegram_ok, jobs_db, stats, config,
                 all_jobs, filtered_jobs, new_jobs, idx, outbox, pipe_vars,
                 call_vars, chat>>

\* cmd_report up to the first part: the notice is replied, the report is
\* sliced.
CmdReport(t) ==
  /\ program = "notify"
  /\ pc[t] = "call"
  /\ arg.handler = "cmd_report"
  /\ chat' = Append(chat, report_notice)
  /\ pending' = parts_to_send(arg.message, report_limit)
  /\ pc' = [pc EXCEPT ![t] = "sending"]
  /\ UNCHANGED <<program, now, threads, disk, telegram_ok, jobs_db, stats, config,
                 all_jobs, filtered_jobs, new_jobs, idx, outbox, pipe_vars,
                 call_vars>>

\* bot.send_message / reply_text for the next part succeeds.
SendPart(t) ==
  /\ program = "notify"
  /\ pc[t] = "sending"
  /\ pending # <<>>
  /\ chat' = Append(chat, Head(pending))
  /\ pending' = Tail(pending)
  /\ UNCHANGED <<program, now, bot_vars, pipe_vars, call_vars>>

\* The send of the next part raises: send_telegram_notification logs the
\* error and returns, cmd_report lets it propagate; neither sends the rest.
SendRaises(t) ==
  /\ program = "notify"
  /\ pc[t] = "sending"
  /\ pending # <<>>
  /\ pc' = [pc EXCEPT ![t] = "failed"]
  /\ UNCHANGED <<program, now, threads, disk, telegram_ok, jobs_db, stats, config,
                 all_jobs, filtered_jobs, new_jobs, idx, outbox, pipe_vars,
                 call_vars, send_vars>>

\* Every part is sent: the handler returns.
SendReturns(t) ==
  /\ program = "notify"
  /\ pc[t] = "sending"
  /\ pending = <<>>
  /\ pc' = [pc EXCEPT ![t] = "returned"]
  /\ UNCHANGED <<program, now, threads, disk, telegram_ok, jobs_db, stats, config,
                 all_jobs, filtered_jobs, new_jobs, idx, outbox, pipe_vars,
                 call_vars, send_vars>>

NotifyNext ==
  \/ \E t \in threads : SendNotification(t)
  \/ \E t \in threads : CmdReport(t)
  \/ \E t \in threads : SendPart(t)
  \/ \E t \in threads : SendRaises(t)
  \/ \E t \in threads : SendReturns(t)

SpecNotify == NotifyInit /\ [][NotifyNext]_vars

(***************************************************************************)
(* The bot and the /sites command                                          *)
(***************************************************************************)

\* /sites commands handled in one run of the model.
MaxCommands == 2

\* list.remove(x): the list without the first occurrence of x.
RECURSIVE remove(_, _)
remove(s, x) ==
  IF s = <<>> THEN <<>>
  ELSE IF Head(s) = x THEN Tail(s)
  ELSE <<Head(s)>> \o remove(Tail(s), x)

\* cmd_sites without arguments: the status of every site.
sites_status(cfg) ==
  [i \in 1..Len(job_sites) |->
     [site |-> job_sites[i].name,
      status |-> IF job_sites[i].requires_auth THEN "requires auth"
                 ELSE IF job_sites[i].name \in Range(cfg.active_sites)
                 THEN "active" ELSE "inactive"]]

\* cmd_sites: `site_names = [s['name'] for s in self.job_sites if not
\* s.get('requires_auth')]`
site_names ==
  {job_sites[i].name : i \in {k \in 1..Len(job_sites) : ~job_sites[k].requires_auth}}

\* Variant of the lookup: every site of job_sites can be named.
any_site_found(site_name) == site_name \in SiteNames

\* cmd_sites: `site_name not in site_names` is false
site_found(site_name) == site_name \in site_names

\* cmd_sites for context.args = args: args[1] is the action, args[2] the
\* site name (the words after the action, joined).  The configuration it
\* leaves, the text it replies, and whether it goes on to save_all_data.
cmd_sites(cfg, args) ==
  IF Len(args) = 0
  THEN [config |-> cfg, save |-> FALSE,
        reply |-> [text |-> "status", sites |-> sites_status(cfg)]]
  ELSE
    LET action == lower(args[1])
        site_name == IF Len(args) > 1 THEN args[2] ELSE ""
        said(text) == [text |-> text, site |-> site_name]
    IN IF ~site_found(site_name)
       THEN [config |-> cfg, save |-> FALSE, reply |-> said("not found")]
       ELSE IF action = <<"e","n","a","b","l","e">>
       THEN IF site_name \notin Range(cfg.active_sites)
            THEN [config |-> [cfg EXCEPT !.active_sites = Append(@, site_name)],
                  save |-> TRUE, reply |-> said("enabled")]
            ELSE [config |-> cfg, save |-> TRUE, reply |-> said("was enabled")]
       ELSE IF action = <<"d","i","s","a","b","l","e">>
       THEN IF site_name \in Range(cfg.active_sites)
            THEN [config |-> [cfg EXCEPT !.active_sites = remove(@, site_name)],
                  save |-> TRUE, reply |-> said("disabled")]
            ELSE [config |-> cfg, save |-> TRUE, reply |-> said("was disabled")]
       ELSE [config |-> cfg, save |-> FALSE, reply |-> said("invalid action")]

\* The /sites commands the chat sends.
SiteCommands ==
  {<<>>,
   <<<<"E","N","A","B","L","E">>, "Music Jobs UK">>,
   <<<<"e","n","a","b","l","e">>, "LinkedIn Music Jobs">>,
   <<<<"d","i","s","a","b","l","e">>, "Music Business Worldwide">>,
   <<<<"D","i","s","a","b","l","e">>, "Music Jobs UK">>,
   <<<<"t","o","g","g","l","e">>, "Music Jobs UK">>}

SitesInit == BotInit({"main"}, {OneSiteConfig}) /\ telegram_ok

\* The polling thread handles one /sites command, at any point of a search
\* of the main thread: the reply goes to the chat and, after enable or
\* disable of a known site, save_all_data writes the three files.
CmdSites ==
  /\ program = "bot"
  /\ Len(chat) < MaxCommands
  /\ \E args \in SiteCommands :
     \E r \in {cmd_sites(config, args)} :
       /\ config' = r.config
       /\ chat' = Append(chat, r.reply)
       /\ IF r.save
          THEN /\ jobs_db' = [jobs_db EXCEPT !.last_updated = now]
               /\ disk' = [saved |-> TRUE, jobs_database |-> jobs_db',
                           config |-> config', statistics |-> stats]
          ELSE UNCHANGED <<jobs_db, disk>>
  /\ UNCHANGED <<threads, pc, now, telegram_ok, stats, all_jobs,
                 filtered_jobs, new_jobs, idx, outbox>>
  /\ UNCHANGED <<program, pipe_vars, call_vars, pending>>

SitesNext ==
  \/ \E t \in threads : StartSearch(t)
  \/ \E t \in threads : ScrapeAllSites(t)
  \/ \E t \in threads : FilterJobs(t)
  \/ \E t \in threads : FindCheck(t)
  \/ \E t \in threads : FindInsert(t)
  \/ \E t \in threads : Notify(t)
  \/ \E t \in threads : SaveAllData(t)
  \/ CmdSites

SpecSites == SitesInit /\ [][SitesNext]_vars

(***************************************************************************)
(* Searches during which the clock goes on                                 *)
(***************************************************************************)

\* Ticks of the clock between the fetch and the insertions of the searches
\* in one run of the model.
MaxTicks == 1

ClockInit == BotInit({"main"}, {OneSiteConfig})

\* Time passes after scrape_all_sites has built the jobs (found_date is set
\* in Job.__post_init__) and before find_new_jobs has inserted them all:
\* the futures of the other sites, the delay after each site, the filter.
Tick(t) ==
  /\ program = "bot"
  /\ pc[t] \in {"filter", "find", "insert"}
  /\ now - stats.total_searches < MaxTicks
  /\ now' = now + 1
  /\ UNCHANGED <<program, bot_vars, pipe_vars, call_vars, send_vars>>

ClockNext ==
  \/ \E t \in threads : StartSearch(t)
  \/ \E t \in threads : ScrapeAllSites(t)
  \/ \E t \in threads : FilterJobs(t)
  \/ \E t \in threads : FindCheck(t)
  \/ \E t \in threads : FindInsert(t)
  \/ \E t \in threads : Notify(t)
  \/ \E t \in threads : SaveAllData(t)
  \/ \E t \in threads : Tick(t)

SpecClock == ClockInit /\ [][ClockNext]_vars

(***************************************************************************)
(* scrape_all_sites when the outcome of every fetch is known               *)
(***************************************************************************)

\* What the fetches of one search end in, site by site.
SiteOutcomes ==
  {o \in [Range(DefaultConfig.active_sites) ->
            UNION {Outcomes(name) : name \in Range(DefaultConfig.active_sites)}] :
     \A name \in DOMAIN o : o[name] \in Outcomes(name)}

\* What the futures return when the fetches end as given.
scrape_results(sites, outcomes, t) ==
  [k \in 1..Len(sites) |-> run_scraper(sites[k], outcomes[sites[k].name], t)]

\* A search about to call scrape_all_sites; arg holds what each fetch will
\* end in.
ScrapeInit ==
  /\ program = "scrape"
  /\ now = 1
  /\ PipeIdle
  /\ NothingSent
  /\ arg \in SiteOutcomes
  /\ ret = <<>>
  /\ threads = {"main"}
  /\ pc = [t \in threads |-> "scrape"]
  /\ telegram_ok = FALSE
  /\ jobs_db = EmptyDatabase
  /\ stats = [EmptyStats EXCEPT !.total_searches = 1]
  /\ config = DefaultConfig
  /\ all_jobs = [t \in threads |-> <<>>]
  /\ filtered_jobs = [t \in threads |-> <<>>]
  /\ new_jobs = [t \in threads |-> <<>>]
  /\ idx = [t \in threads |-> 1]
  /\ outbox = <<>>
  /\ disk = NoData

ScrapeGiven(t) ==
  /\ program = "scrape"
  /\ pc[t] = "scrape"
  /\ Completed(t, active_sites(config),
               scrape_results(active_sites(config), arg, now))
  /\ pc' = [pc EXCEPT ![t] = "filter"]
  /\ UNCHANGED <<threads, disk, now, telegram_ok, stats, config,
                 filtered_jobs, new_jobs, idx, outbox>>
  /\ UNCHANGED <<program, pipe_vars, call_vars, send_vars>>

ScrapeNext == \E t \in threads : ScrapeGiven(t)

SpecScrape == ScrapeInit /\ [][ScrapeNext]_vars

(***************************************************************************)
(* format_telegram_message on one list of new jobs                         *)
(***************************************************************************)

\* Lists of new jobs: as many as a category shows, one more, as many as the
\* batch size, and more; all in one category, in alternating categories,
\* with two tags each.
FormatLengths == {0, 1, 3, 4, 5, 9, 10, 11, 12}

FormatTags ==
  {<< <<"Production">> >>,
   << <<"Production">>, <<"Marketing">> >>,
   << <<"Production", "Marketing">>, <<"Other">> >>,
   << <<"Other">>, <<"Other">>, <<"Production">> >>}

FormatLocations ==
  <<<<"B","e","r","l","i","n">>, <<"L","o","n","d","o","n",","," ","U","K">>, <<"L","o","n","d","o","n">>, <<" ","O","s","l","o"," ",",","N","O">>, <<"R","e","m","o","t","e">>>>

FormatJob(i, tags) ==
  LET url == <<"/", "j", "/">> \o <<i>>
  IN [id |-> md5_16(url), title |-> <<"T","o","u","r"," ","M","a","n","a","g","e","r">>, company |-> <<"A","c","m","e">>,
      location |-> FormatLocations[(i % Len(FormatLocations)) + 1],
      url |-> url, description |-> <<>>,
      salary |-> None,
      job_type |-> IF i % 2 = 0 THEN None ELSE <<"R","e","m","o","t","e">>,
      posted_date |-> None, source |-> "Indeed Music", found_date |-> 0,
      tags |-> tags]

FormatJobLists ==
  {[i \in 1..n |-> FormatJob(i, tags[((i - 1) % Len(tags)) + 1])] :
     n \in FormatLengths, tags \in FormatTags}

\* The batch sizes data/config.json may hold: the default and a smaller one.
FormatBatchSizes == {notification_batch_size, 4}

FormatInit ==
  /\ program = "format"
  /\ AtRest
  /\ arg \in [jobs : FormatJobLists, batch : FormatBatchSizes]
  /\ ret = <<>>

\* One call of format_telegram_message.
FormatTelegramMessage ==
  /\ program = "format"
  /\ ret = <<>>
  /\ ret' = <<format_telegram_message(arg.jobs, arg.batch)>>
  /\ UNCHANGED <<program, now, bot_vars, pipe_vars, send_vars, arg>>

FormatNext == FormatTelegramMessage

SpecFormat == FormatInit /\ [][FormatNext]_vars

(***************************************************************************)
(* Properties of the store and the counters                                *)
(***************************************************************************)

\* The ids the store holds.
stored_ids == DOMAIN jobs_db.jobs

\* How often the id occurs in a list of jobs.
count_id(jobs, id) == Cardinality({i \in 1..Len(jobs) : jobs[i].id = id})

\* A job of the thread's filtered list that the store already held when the
\* search began: the stored record is older than the search.
refetched(t, i) ==
  /\ i \in 1..Len(filtered_jobs[t])
  /\ filtered_jobs[t][i].id \in stored_ids
  /\ jobs_db.jobs[filtered_jobs[t][i].id].found_date < filtered_jobs[t][i].found_date

\* No two rows of the jobs table have the same job_id.
unique_job_ids(cx) ==
  \A i, j \in 1..Len(cx.jobs) : cx.jobs[i].job_id = cx.jobs[j].job_id => i = j

\* C1 (idempotent ingestion): a step of either program leaves every stored
\* record as it was -- the record of an id the JSON store holds stays there
\* unchanged, found_date included, and a row of the SQLite table stays in
\* place unchanged, inserted_at included -- and the table never comes to
\* hold a second row with a job_id it has.  Offering a known id again is a
\* no-op.
C1_IdempotentIngestion ==
  [][/\ \A id \in stored_ids :
          /\ id \in DOMAIN jobs_db'.jobs
          /\ jobs_db'.jobs[id] = jobs_db.jobs[id]
     /\ \A i \in 1..Len(sqlite.jobs) :
          /\ i <= Len(sqlite'.jobs)
          /\ sqlite'.jobs[i] = sqlite.jobs[i]
     /\ unique_job_ids(sqlite')]_vars

\* The second search has passed over a job whose id the first search stored:
\* the job was offered again, was not taken as new, and the stored record
\* still has the first search's found_date.
C1_Witness ==
  /\ "main" \in threads
  /\ stats.total_searches = 2
  /\ pc["main"] = "find"
  /\ idx["main"] = 2
  /\ refetched("main", 1)
  /\ jobs_db.jobs[filtered_jobs["main"][1].id].found_date = 1
  /\ new_jobs["main"] = <<>>

\* C2 (dedup invariant): every stored record sits under its own id, a
\* search never takes two records of one id as new, the store holds as many
\* records as were ever inserted (no id was inserted twice, in whatever order
\* the sites completed), and the jobs table has one row per job_id.
C2_Dedup ==
  /\ \A id \in stored_ids : jobs_db.jobs[id].id = id
  /\ \A t \in threads : \A id \in stored_ids : count_id(new_jobs[t], id) <= 1
  /\ \A t \in threads : \A i \in 1..Len(new_jobs[t]) : new_jobs[t][i].id \in stored_ids
  /\ stats.total_jobs_found = Cardinality(stored_ids)
  /\ unique_job_ids(sqlite)
  /\ Len(sqlite.jobs_fts) = Len(sqlite.jobs)

\* One search got, from two different sites, two different records of one
\* id; the loop of find_new_jobs is through and one of them is stored.
C2_Witness ==
  /\ "main" \in threads
  /\ pc["main"] = "notify"
  /\ \E i, j \in 1..Len(filtered_jobs["main"]) :
       /\ i < j
       /\ filtered_jobs["main"][i].id = filtered_jobs["main"][j].id
       /\ filtered_jobs["main"][i].source # filtered_jobs["main"][j].source
       /\ filtered_jobs["main"][i].title # filtered_jobs["main"][j].title
       /\ jobs_db.jobs[filtered_jobs["main"][i].id] = filtered_jobs["main"][i]
       /\ count_id(new_jobs["main"], filtered_jobs["main"][i].id) = 1

\* Two jobs are the same posting read from two sites: title, company and
\* url are identical, the source differs.
exact_duplicates(a, b) ==
  /\ a.title = b.title
  /\ a.company = b.company
  /\ a.url = b.url
  /\ a.source # b.source

\* The thread's filtered list holds, at i and j, a posting and its exact
\* duplicate from another site, and the store did not hold the posting when
\* the search began.
duplicate_pair(t, i, j) ==
  /\ i \in 1..Len(filtered_jobs[t])
  /\ j \in 1..Len(filtered_jobs[t])
  /\ i < j
  /\ exact_duplicates(filtered_jobs[t][i], filtered_jobs[t][j])
  /\ ~refetched(t, i)

\* The step is find_new_jobs' insertion of the thread's current job: one
\* new id in the store, one more in the total, one more new job.
one_insertion(t) ==
  LET job == filtered_jobs[t][idx[t]]
  IN /\ job.id \notin stored_ids
     /\ DOMAIN jobs_db'.jobs = stored_ids \cup {job.id}
     /\ stats'.total_jobs_found = stats.total_jobs_found + 1
     /\ new_jobs'[t] = Append(new_jobs[t], job)

\* C3 (end-to-end duplicate scenario): when the search got a posting and its
\* exact duplicate from a second site, and the posting was not known before,
\* then once find_new_jobs is through the store holds one record of it (the
\* first of the two), the list of new jobs holds it once; every step that
\* writes the store writes one new id, adds one to the total and one record
\* to the list of new jobs; and the batch sent is that list.
C3_DuplicateScenario ==
  /\ [](\A t \in threads :
          pc[t] \in {"notify", "save"} =>
            \A i, j \in 1..Len(filtered_jobs[t]) :
              duplicate_pair(t, i, j) =>
                /\ filtered_jobs[t][i].id = filtered_jobs[t][j].id
                /\ filtered_jobs[t][i].id \in stored_ids
                /\ jobs_db.jobs[filtered_jobs[t][i].id].source
                     \in {filtered_jobs[t][i].source, filtered_jobs[t][j].source}
                /\ count_id(new_jobs[t], filtered_jobs[t][i].id) = 1)
  /\ [][/\ (jobs_db'.jobs # jobs_db.jobs
             \/ stats'.total_jobs_found # stats.total_jobs_found) =>
               \E t \in threads : pc[t] = "insert" /\ one_insertion(t)
        /\ outbox' # outbox =>
               \E t \in threads :
                  /\ pc[t] = "notify"
                  /\ outbox' = Append(outbox, job_ids(new_jobs[t]))]_vars

\* A search that got one posting from two sites and nothing else has sent
\* its batch: one record stored, the total at one, one id in the batch.
C3_Witness ==
  /\ "main" \in threads
  /\ pc["main"] = "save"
  /\ Len(filtered_jobs["main"]) = 2
  /\ duplicate_pair("main", 1, 2)
  /\ Cardinality(stored_ids) = 1
  /\ stats.total_jobs_found = 1
  /\ outbox = << <<filtered_jobs["main"][1].id>> >>

\* The sum of the values of a dictionary of counters.
RECURSIVE sum_values(_)
sum_values(d) ==
  IF DOMAIN d = {} THEN 0
  ELSE LET k == CHOOSE k \in DOMAIN d : TRUE
       IN d[k] + sum_values([x \in DOMAIN d \ {k} |-> d[x]])

\* C6 (aggregation consistency): in sequential searches from an empty store
\* and zero counters, total_jobs_found equals the number of records inserted
\* (the records the store holds), and the per-category counts add up to at
\* least that number.
C6_AggregationConsistency ==
  /\ stats.total_jobs_found = Cardinality(stored_ids)
  /\ sum_values(stats.jobs_by_category) >= stats.total_jobs_found

\* Two searches inserted two records, one of them under two categories, and
\* the second search passed over a record the first had stored.
C6_Witness ==
  /\ "main" \in threads
  /\ stats.total_searches = 2
  /\ pc["main"] = "notify"
  /\ stats.total_jobs_found = 2
  /\ sum_values(stats.jobs_by_category) > 2
  /\ \E i \in 1..Len(filtered_jobs["main"]) : refetched("main", i)
  /\ Len(new_jobs["main"]) = 1

\* C4 (one id per logical posting): the ids the adapters computed for the
\* listings of one logical posting are one id, whichever adapter computed
\* them: the site scrapers of main.py, Doors Open, Music Ally.
C4_SameIdEveryAdapter ==
  program = "ids" => \A a, b \in DOMAIN ret : ret[a] = ret[b]

\* generate_job_id and doors_open.fetch have both computed an id for the
\* listings of one posting.
C4_Witness ==
  /\ program = "ids"
  /\ {"main", "doors_open"} \subseteq DOMAIN ret
\* C5 (atomic insert-if-absent): with the scheduled search on the main
\* thread and a /search on the polling thread, a stored id was taken as new
\* by one search only, it was counted once, and the record that search
\* stored is still the stored one, its found_date included.
C5_InsertIfAbsentAtomic ==
  /\ \A id \in stored_ids :
       Cardinality({t \in threads : count_id(new_jobs[t], id) > 0}) <= 1
  /\ stats.total_jobs_found = Cardinality(stored_ids)
  /\ \A t \in threads : \A i \in 1..Len(new_jobs[t]) :
       jobs_db.jobs[new_jobs[t][i].id] = new_jobs[t][i]

\* Both threads have tested the same id, found it unknown, and are about
\* to store it.
C5_Witness ==
  /\ threads = {"main", "poll"}
  /\ pc["main"] = "insert"
  /\ pc["poll"] = "insert"
  /\ filtered_jobs["main"][idx["main"]].id = filtered_jobs["poll"][idx["poll"]].id

\* The categories with a keyword that occurs in the text, case ignored.
categories_in(text) ==
  {job_categories[i].category : i \in
     {i \in 1..Len(job_categories) :
        \E k \in 1..Len(job_categories[i].keywords) :
           contains(job_categories[i].keywords[k], lower(text))}}

\* The job's tags are the categories found in the text, or Other alone when
\* none is found.
tags_cover(job, text) ==
  /\ job.tags # <<>>
  /\ categories_in(text) # {} => Range(job.tags) = categories_in(text)
  /\ categories_in(text) = {} => job.tags = <<"Other">>

\* C7 as stated (category exhaustiveness): the record the scraper built has
\* a non-empty tag list, holding every category with a keyword that is a
\* case-insensitive substring of title + description, and Other alone when
\* there is none.
C7_TagsOfTitlePlusDescription ==
  program = "categorize" /\ ret # <<>> =>
    tags_cover(ret[1], ret[1].title \o ret[1].description)

\* C7 (category exhaustiveness), amended: the record the scraper built has a
\* non-empty tag list, holding exactly the categories with a keyword that is
\* a case-insensitive substring of the title, a space and the description,
\* and Other alone when there is none.
C7_TagsOfTitleSpaceDescription ==
  program = "categorize" /\ ret # <<>> =>
    tags_cover(ret[1], ret[1].title \o <<" ">> \o ret[1].description)

\* The scraper built a record whose only keyword begins in the title and
\* ends in the description.
C7_Witness ==
  /\ program = "categorize"
  /\ ret # <<>>
  /\ ret[1].title = <<"H","e","a","d"," ","o","f"," ","S","o","u","n","d">>
  /\ ret[1].description = <<"d","e","s","i","g","n"," ","l","e","a","d">>
  /\ ret[1].tags = <<"Creative">>

(***************************************************************************)
(* Properties of the filter                                                *)
(***************************************************************************)

\* A word occurs in a text, case ignored.
occurs_in(word, text) == contains(lower(word), lower(text))

\* The text of the job the keywords are looked up in.
searched_text(job) ==
  job.title \o <<" ">> \o job.company \o <<" ">> \o job.description

keyword_stage(job, f) ==
  f.keywords = <<>>
  \/ \E i \in 1..Len(f.keywords) : occurs_in(f.keywords[i], searched_text(job))

exclusion_stage(job, f) ==
  f.excluded_keywords = <<>>
  \/ ~\E i \in 1..Len(f.excluded_keywords) :
         occurs_in(f.excluded_keywords[i], searched_text(job))

some_location_matches(job, f) ==
  \E i \in 1..Len(f.locations) : occurs_in(f.locations[i], job.location)

has_remote_token(f) ==
  \E i \in 1..Len(f.locations) : f.locations[i] = <<"r","e","m","o","t","e">>

location_stage(job, f) ==
  f.locations = <<>> \/ has_remote_token(f) \/ some_location_matches(job, f)

job_type_stage(job, f) ==
  f.job_types = <<>>
  \/ /\ job.job_type # None
     /\ \E i \in 1..Len(f.job_types) : occurs_in(f.job_types[i], job.job_type)

all_stages(job, f) ==
  /\ keyword_stage(job, f)
  /\ exclusion_stage(job, f)
  /\ location_stage(job, f)
  /\ job_type_stage(job, f)

\* The thread has filtered its list.
filtered(t) == program = "filter" /\ pc[t] = "find"

\* Only "producer" is configured, as a keyword.
only_producer(f) ==
  /\ f.keywords = <<<<"p","r","o","d","u","c","e","r">>>>
  /\ f.excluded_keywords = <<>>
  /\ f.locations = <<>>
  /\ f.job_types = <<>>

\* C8 (filter correctness): the filtered list is the scraped list without
\* the jobs that fail one of the four stages, in the same order; an empty
\* keywords, excluded_keywords, locations or job_types list lets every job
\* through its stage; with keywords = ["producer"] and nothing else
\* configured, "Audio Producer" passes and a "Tour Manager" without
\* "producer" in company or description does not.
C8_FilterCorrectness ==
  \A t \in threads : filtered(t) =>
    LET f == config.user_filters
    IN /\ filtered_jobs[t] = SelectSeq(all_jobs[t], LAMBDA job : all_stages(job, f))
       /\ only_producer(f) =>
            \A i \in 1..Len(all_jobs[t]) :
              LET job == all_jobs[t][i]
              IN /\ job.title = <<"A","u","d","i","o"," ","P","r","o","d","u","c","e","r">> => job \in Range(filtered_jobs[t])
                 /\ (job.title = <<"T","o","u","r"," ","M","a","n","a","g","e","r">>
                       /\ ~occurs_in(<<"p","r","o","d","u","c","e","r">>, job.company)
                       /\ ~occurs_in(<<"p","r","o","d","u","c","e","r">>, job.description))
                    => job \notin Range(filtered_jobs[t])

\* With keywords = ["producer"], a list with "Tour Manager", "Audio Producer"
\* and another "Tour Manager" was filtered down to the "Audio Producer".
C8_Witness ==
  /\ filtered("main")
  /\ only_producer(config.user_filters)
  /\ Len(all_jobs["main"]) = 3
  /\ Len(filtered_jobs["main"]) = 1
  /\ filtered_jobs["main"][1].title = <<"A","u","d","i","o"," ","P","r","o","d","u","c","e","r">>

\* The job passes the three stages other than the location stage, so the
\* filtered list shows what the location stage did with it.
other_stages(job, f) ==
  /\ keyword_stage(job, f)
  /\ exclusion_stage(job, f)
  /\ job_type_stage(job, f)

\* C9 as stated (remote bypass): when the configured locations contain the
\* token "remote" every job passes the location stage; without the token a
\* job passes it only if a configured location occurs in its location, case
\* ignored.
C9_RemoteBypass ==
  \A t \in threads : filtered(t) =>
    \A i \in 1..Len(all_jobs[t]) :
      LET f == config.user_filters
          job == all_jobs[t][i]
      IN other_stages(job, f) =>
           /\ has_remote_token(f) => job \in Range(filtered_jobs[t])
           /\ (~has_remote_token(f) /\ job \in Range(filtered_jobs[t]))
                => some_location_matches(job, f)

\* C9 (remote bypass), amended: when the configured locations contain the
\* token "remote" every job passes the location stage; with a non-empty
\* list of locations without the token a job passes it exactly when a
\* configured location occurs in its location, case ignored; with an empty
\* list every job passes.
C9_RemoteBypassNonEmpty ==
  \A t \in threads : filtered(t) =>
    \A i \in 1..Len(all_jobs[t]) :
      LET f == config.user_filters
          job == all_jobs[t][i]
      IN other_stages(job, f) =>
           /\ has_remote_token(f) => job \in Range(filtered_jobs[t])
           /\ (~has_remote_token(f) /\ f.locations # <<>>) =>
                (job \in Range(filtered_jobs[t]) <=> some_location_matches(job, f))
           /\ f.locations = <<>> => job \in Range(filtered_jobs[t])

\* With the token "remote" among the locations, a job in Berlin passed.
C9_Witness ==
  /\ filtered("main")
  /\ config.user_filters.locations \in {<<<<"r","e","m","o","t","e">>>>, <<<<"L","o","n","d","o","n">>, <<"r","e","m","o","t","e">>>>}
  /\ config.user_filters.keywords = <<>>
  /\ Len(all_jobs["main"]) = 1
  /\ all_jobs["main"][1].location = <<"B","e","r","l","i","n">>
  /\ filtered_jobs["main"] = all_jobs["main"]

(***************************************************************************)
(* Properties of the notifier                                              *)
(***************************************************************************)

\* The parts of the message the chat has received: what follows the notice
\* in a /report, everything otherwise.
received_parts ==
  IF arg.handler = "cmd_report" /\ chat # <<>> THEN Tail(chat) ELSE chat

\* ceil(len / limit)
ceil_div(len, limit) == (len + limit - 1) \div limit

RECURSIVE concatenation(_)
concatenation(parts) ==
  IF parts = <<>> THEN <<>> ELSE Head(parts) \o concatenation(Tail(parts))

\* The handler was able to send, and no send raised.
delivered(t) ==
  /\ pc[t] = "returned"
  /\ arg.handler = "send_telegram_notification" => telegram_ok

\* C10 (notification chunking): the k-th part received is the k-th run of
\* 4000 characters of the message (the last run may be shorter), so the
\* parts arrive in order and none is longer than the limit; and once the
\* handler has returned from a delivery, the chat has ceil(L/4000) parts
\* whose concatenation is the message.
C10_Chunking ==
  program = "notify" =>
    LET L == Len(arg.message)
        M == max_length
    IN /\ \A k \in 1..Len(received_parts) :
            /\ Len(received_parts[k]) <= M
            /\ received_parts[k] =
                 SubSeq(arg.message, (k - 1) * M + 1, IF k * M < L THEN k * M ELSE L)
       /\ \A t \in threads : delivered(t) =>
            /\ Len(received_parts) = ceil_div(L, M)
            /\ concatenation(received_parts) = arg.message

\* A message one character longer than two full slices was delivered in
\* three parts.
C10_Witness ==
  /\ program = "notify"
  /\ delivered("main")
  /\ Len(arg.message) = 2 * max_length + 1
  /\ Len(received_parts) = 3
  /\ Len(received_parts[3]) = 1

\* C11 (fetch failure isolation): when a run of the collection in which a
\* collector failed has ended, the rows of every collector that did not
\* fail were collected and passed on: raw_jobs.json exists and holds them.
C11_FetchFailureIsolation ==
  (/\ program = "collect"
   /\ ret # <<>>
   /\ \E f \in DOMAIN arg : ~arg[f].ok) =>
    /\ raw_jobs_json.exists
    /\ \A g \in DOMAIN arg : \A i \in 1..Len(arg[g].rows) :
         arg[g].ok => arg[g].rows[i] \in Range(raw_jobs_json.rows)

\* The run has ended, the Music Ally collector was the one to fail and
\* Doors Open had rows to give.
C11_Witness ==
  /\ program = "collect"
  /\ ret # <<>>
  /\ ~arg.fetch_musically.ok
  /\ arg.fetch_doors.ok
  /\ arg.fetch_doors.rows # <<>>

\* C12 as stated (empty new set, no message): a cycle whose set of newly
\* inserted records is empty sends nothing -- the bot's search leaves the
\* notify stage without a batch in the outbox, push.py sends no text for an
\* empty or missing jobs_latest.json, and a run of quick_fix.py that found
\* no new job sends no message.
C12_NoNewNoMessage ==
  [][/\ \A t \in threads :
          (pc[t] = "notify" /\ pc'[t] = "save" /\ new_jobs[t] = <<>>)
            => outbox' = outbox
     /\ (program = "pipeline" /\ now' # now /\ jobs_latest_json.rows = <<>>)
          => chat' = chat
     /\ (program = "quick_fix" /\ now' # now
         /\ DOMAIN simple_db'.jobs = DOMAIN simple_db.jobs)
          => chat' = chat]_vars

\* C12 as amended: the bot's search and push.py send nothing when the set
\* of newly inserted records is empty; a run of quick_fix.py that found no
\* new job sends no job message, and at most its one status message with
\* the size of its database.
C12_NoNewNoJobMessage ==
  [][/\ \A t \in threads :
          (pc[t] = "notify" /\ pc'[t] = "save" /\ new_jobs[t] = <<>>)
            => outbox' = outbox
     /\ (program = "pipeline" /\ now' # now /\ jobs_latest_json.rows = <<>>)
          => chat' = chat
     /\ (program = "quick_fix" /\ now' # now
         /\ DOMAIN simple_db'.jobs = DOMAIN simple_db.jobs)
          => chat' \in {chat,
                        Append(chat, [kind |-> "status",
                                      total |-> Cardinality(DOMAIN simple_db.jobs)])}]_vars

\* A search with Telegram configured that scraped a posting, found nothing
\* new and has passed the notify stage: a batch was sent earlier, none now.
C12_Witness ==
  /\ program = "bot"
  /\ telegram_ok
  /\ pc["main"] = "save"
  /\ filtered_jobs["main"] # <<>>
  /\ new_jobs["main"] = <<>>
  /\ Len(outbox) = 1

\* The id is in a batch the chat received.
notified(id) == \E k \in 1..Len(outbox) : id \in Range(outbox[k])

\* The id is in the new_jobs of a search that has not sent its message yet.
offered(id) ==
  \E t \in threads :
    /\ pc[t] \in {"find", "insert", "notify"}
    /\ count_id(new_jobs[t], id) > 0

\* C13 (at-least-once delivery): with Telegram configured, every record in
\* the store was delivered in a notification or is still offered for one;
\* a record whose delivery failed stays offered until a delivery succeeds.
C13_AtLeastOnceDelivery ==
  (program = "bot" /\ telegram_ok) =>
    \A id \in stored_ids : notified(id) \/ offered(id)

\* The send of the search that inserted a record failed, and a later search
\* met the record again: it is known, so it is not offered.
C13_Witness ==
  /\ program = "bot"
  /\ telegram_ok
  /\ stats.total_searches = 2
  /\ pc["main"] = "notify"
  /\ new_jobs["main"] = <<>>
  /\ \E id \in stored_ids : ~notified(id)

stage_order ==
  {<<"idle", "scrape">>, <<"scrape", "filter">>, <<"filter", "find">>,
   <<"find", "insert">>, <<"insert", "find">>, <<"find", "notify">>,
   <<"notify", "save">>, <<"save", "idle">>}

C15_UnsetJobTypeExcluded ==
  \A t \in threads :
    (filtered(t) /\ config.user_filters.job_types # <<>>) =>
      /\ \A i \in 1..Len(all_jobs[t]) :
           all_jobs[t][i].job_type = None
             => all_jobs[t][i] \notin Range(filtered_jobs[t])
      /\ \A i \in 1..Len(filtered_jobs[t]) :
           /\ filtered_jobs[t][i].job_type # None
           /\ \E k \in 1..Len(config.user_filters.job_types) :
                occurs_in(config.user_filters.job_types[k],
                          filtered_jobs[t][i].job_type)

\* With job_types = ["remote"], a list holding jobs without a job_type and a
\* "Remote" job was filtered: the "Remote" job is all that is left, though a
\* job without a job_type passes the three other stages.
C15_Witness ==
  /\ filtered("main")
  /\ config.user_filters.job_types = << <<"r","e","m","o","t","e">> >>
  /\ Len(filtered_jobs["main"]) = 1
  /\ filtered_jobs["main"][1].job_type = <<"R","e","m","o","t","e">>
  /\ \E i \in 1..Len(all_jobs["main"]) :
       /\ all_jobs["main"][i].job_type = None
       /\ keyword_stage(all_jobs["main"][i], config.user_filters)
       /\ exclusion_stage(all_jobs["main"][i], config.user_filters)
       /\ location_stage(all_jobs["main"][i], config.user_filters)

\* C16 (chunk failure isolation): when send_telegram_notification has ended
\* after the send of one chunk failed, every other chunk of the message was
\* attempted in order and the chunks sent are in the chat: of the chunks
\* only the one that failed is missing, and none was sent twice.
C16_SiblingChunksStillSent ==
  \A t \in threads :
    (/\ program = "notify"
     /\ arg.handler = "send_telegram_notification"
     /\ pc[t] = "failed") =>
      /\ Len(pending) <= 1
      /\ Len(chat) = Len(parts_to_send(arg.message, max_length)) - 1
      /\ \A k \in 1..Len(chat) : chat[k] \in Range(parts_to_send(arg.message, max_length))

\* A message of three chunks: the first was sent, the send of the second
\* failed, the handler has ended and the third is still unsent.
C16_Witness ==
  /\ program = "notify"
  /\ arg.handler = "send_telegram_notification"
  /\ pc["main"] = "failed"
  /\ Len(chat) = 1
  /\ Len(pending) = 2

\* The row of the jobs table has its entry in the full-text index.
indexed(cx, i) ==
  \E k \in 1..Len(cx.jobs_fts) :
    /\ cx.jobs_fts[k].rowid = cx.jobs[i].rowid
    /\ cx.jobs_fts[k].description = cx.jobs[i].description

\* The step is a run of clean.py that ended in a storage error.
clean_run_failed ==
  /\ program = "pipeline"
  /\ now' # now
  /\ ret'[1] = "clean"
  /\ ret'[2] = "OperationalError"

\* C17 (no row without its index entry): every row of the committed jobs
\* table has its entry in the full-text index; and a run in which a
\* statement failed -- the INSERT INTO jobs_fts after the row was inserted
\* in particular -- leaves the committed tables as they were, so the row
\* inserted before the failure is not stored.
C17_StoredRowsAreIndexed ==
  /\ [](\A i \in 1..Len(sqlite.jobs) : indexed(sqlite, i))
  /\ [][clean_run_failed =>
          (sqlite' = sqlite /\ jobs_latest_json' = jobs_latest_json)]_vars

\* A run over a file with a new, complete row ended in the error of the
\* INSERT INTO jobs_fts, after an earlier run had stored a row.
C17_Witness ==
  /\ program = "pipeline"
  /\ ret = <<"clean", "OperationalError", "fts">>
  /\ sqlite.jobs # <<>>
  /\ \E i \in 1..Len(raw_jobs_json.rows) :
       /\ MANDATORY \subseteq DOMAIN raw_jobs_json.rows[i]
       /\ ~primary_key_conflict(sqlite, raw_jobs_json.rows[i]["job_id"])

\* The complete rows of the file whose job_id the table does not hold.
rows_not_stored(cx, rows) ==
  {i \in 1..Len(rows) :
     /\ MANDATORY \subseteq DOMAIN rows[i]
     /\ \A k \in 1..Len(cx.jobs) : cx.jobs[k].job_id # rows[i]["job_id"]}

\* C18 (a storage error skips one record only): a run of clean.py in which
\* the storage failed on one record has still inserted and committed every
\* other complete record of the batch: at most the failed record is missing
\* from the table.
C18_StorageErrorSkipsOneRecord ==
  [][clean_run_failed =>
       Cardinality(rows_not_stored(sqlite', raw_jobs_json.rows)) <= 1]_vars

\* A run over a file of two complete rows, none of them stored, ended in a
\* storage error.
C18_Witness ==
  /\ program = "pipeline"
  /\ Len(ret) = 3
  /\ ret[2] = "OperationalError"
  /\ Cardinality(rows_not_stored(sqlite, raw_jobs_json.rows)) = 2

\* C19 (each insertion is durable): no step, the interruption of a search
\* and the restart of the bot included, loses a record the store had
\* accepted, and whenever the bot is at rest the total count equals the
\* number of records of the store.
C19_AcceptedRecordsAreDurable ==
  [][/\ \A id \in stored_ids : id \in DOMAIN jobs_db'.jobs
     /\ \A t \in threads :
          pc'[t] = "idle" =>
            stats'.total_jobs_found = Cardinality(DOMAIN jobs_db'.jobs)]_vars

\* The bot was started again after a search that had accepted a record was
\* interrupted inside save_all_data: the record is in the store, the
\* counters are those of the files.
C19_Witness ==
  /\ program = "bot"
  /\ pc["main"] = "idle"
  /\ stored_ids # {}
  /\ stats.total_jobs_found = 0

\* C20 (records without a required field are dropped): no record of the
\* JSON store and no row of the jobs table has an absent or empty title or
\* url, and none was counted or notified.
C20_NoStoredRecordWithoutTitleOrUrl ==
  /\ \A id \in stored_ids :
       /\ jobs_db.jobs[id].title \notin {None, <<>>}
       /\ jobs_db.jobs[id].url \notin {None, <<>>}
  /\ \A i \in 1..Len(sqlite.jobs) :
       /\ sqlite.jobs[i].title \notin {None, <<>>}
       /\ sqlite.jobs[i].url \notin {None, <<>>}

\* A record with an empty title and an empty url is in the store, was
\* counted, and its id was sent in a notification.
C20_Witness ==
  /\ program = "bot"
  /\ \E id \in stored_ids :
       /\ jobs_db.jobs[id].title = <<>>
       /\ jobs_db.jobs[id].url = <<>>
       /\ notified(id)
  /\ stats.total_jobs_found = Cardinality(stored_ids)

(***************************************************************************)
(* Properties of the notification message                                  *)
(***************************************************************************)

\* The jobs among the first `batch` of the list that carry the category, in
\* the order of the list.
in_category(jobs, batch, c) ==
  SelectSeq(SubSeq(jobs, 1, IF Len(jobs) < batch THEN Len(jobs) ELSE batch),
            LAMBDA job : \E k \in 1..Len(job.tags) : job.tags[k] = c)

\* The categories the first `batch` jobs of the list carry.
categories_among(jobs, batch) ==
  {jobs[i].tags[k] : <<i, k>> \in
     {p \in (1..Len(jobs)) \X (1..2) : p[1] <= batch /\ p[2] <= Len(jobs[p[1]].tags)}}

\* C21 (notification formatting): the message of a non-empty list of new
\* jobs has exactly one section for each category that occurs among the
\* first batch-size jobs; a section shows the first jobs of its category
\* among those, at most three, and its tail counts the remaining ones, the
\* number of the category's jobs among the first batch-size jobs minus
\* three, when that is positive; the header gives the length of the whole
\* list, and so does the total line, which is there when the list is longer
\* than the batch size.
C21_NotificationFormat ==
  (program = "format" /\ ret # <<>> /\ arg.jobs # <<>>) =>
    LET msg == ret[1]
        of_category(c) == in_category(arg.jobs, arg.batch, c)
    IN /\ msg.found = Len(arg.jobs)
       /\ {msg.sections[i].category : i \in 1..Len(msg.sections)}
            = categories_among(arg.jobs, arg.batch)
       /\ \A i, j \in 1..Len(msg.sections) :
            msg.sections[i].category = msg.sections[j].category => i = j
       /\ \A i \in 1..Len(msg.sections) :
            LET s == msg.sections[i]
                n == Len(of_category(s.category))
            IN /\ Len(s.shown) = (IF n < 3 THEN n ELSE 3)
               /\ \A k \in 1..Len(s.shown) :
                    /\ s.shown[k].url = of_category(s.category)[k].url
                    /\ s.shown[k].title = of_category(s.category)[k].title
               /\ s.more = (IF n - 3 > 0 THEN n - 3 ELSE 0)
       /\ (Len(arg.jobs) > arg.batch) => msg.total = <<Len(arg.jobs)>>

\* A list longer than the batch size was formatted, and a category with
\* more than three jobs among the first batch-size ones got its tail.
C21_Witness ==
  /\ program = "format"
  /\ ret # <<>>
  /\ Len(arg.jobs) > arg.batch
  /\ \E i \in 1..Len(ret[1].sections) :
       /\ ret[1].sections[i].more > 0
       /\ Len(in_category(arg.jobs, arg.batch, ret[1].sections[i].category))
            < Len(SelectSeq(arg.jobs,
                            LAMBDA job : \E k \in 1..Len(job.tags) :
                               job.tags[k] = ret[1].sections[i].category))

(***************************************************************************)
(* Properties of the fetch                                                 *)
(***************************************************************************)

\* The sites whose fetch failed in the search.
failed_sites == {name \in DOMAIN arg : arg[name] = FetchError}

\* C22 (a failed fetch is told apart from an empty one): once
\* scrape_all_sites has returned, the per-source metadata has no entry of
\* this search, with jobs_found = 0, for a site whose fetch failed.
C22_FailedFetchNotRecorded ==
  (program = "scrape" /\ \A t \in threads : pc[t] = "filter") =>
    \A name \in failed_sites :
      ~(/\ name \in DOMAIN jobs_db.sources_stats
        /\ jobs_db.sources_stats[name].jobs_found = 0
        /\ jobs_db.sources_stats[name].last_scraped = now)

\* The search has fetched its sites; one fetch failed while another site
\* was fetched and showed nothing.
C22_Witness ==
  /\ program = "scrape"
  /\ \A t \in threads : pc[t] = "filter"
  /\ failed_sites # {}
  /\ \E name \in DOMAIN arg : arg[name] = Fetched(<<>>)

(***************************************************************************)
(* Properties of the counters across restarts                              *)
(***************************************************************************)

\* Every count of the first dict is in the second and is not larger there.
counts_le(a, b) ==
  \A k \in DOMAIN a : k \in DOMAIN b /\ a[k] <= b[k]

\* No counter of the first statistics is larger than in the second: the
\* total, the counts per category, location and company, the count per day.
stats_le(a, b) ==
  /\ a.total_jobs_found <= b.total_jobs_found
  /\ counts_le(a.jobs_by_category, b.jobs_by_category)
  /\ counts_le(a.jobs_by_location, b.jobs_by_location)
  /\ counts_le(a.jobs_by_company, b.jobs_by_company)
  /\ \A day \in DOMAIN a.daily_stats :
       /\ day \in DOMAIN b.daily_stats
       /\ a.daily_stats[day].jobs_found <= b.daily_stats[day].jobs_found

\* C23 (monotone counters): no step -- of a cycle, a save, a crash or a
\* restart, the restart that finds an unreadable statistics file included
\* -- lowers a counter the statistics file gives the bot when it starts:
\* the total and every count per category, location, company and day stay
\* or grow.
C23_CountersMonotone ==
  [][stats_le(load_stats(disk), load_stats(disk'))]_vars

\* The bot was started again on a statistics file it could not read, with
\* jobs in the store it had counted before.
C23_Witness ==
  /\ program = "bot"
  /\ disk.saved
  /\ disk.statistics = Unreadable
  /\ stats = EmptyStats
  /\ jobs_db.jobs # EmptyDict

(***************************************************************************)
(* Properties of the per-day counts                                        *)
(***************************************************************************)

\* The stored records found on the day, and those of them from the source.
found_on(day) ==
  {id \in stored_ids : Day(jobs_db.jobs[id].found_date) = day}

found_on_from(day, source) ==
  {id \in found_on(day) : jobs_db.jobs[id].source = source}

\* The days some stored record was found on.
days_found == {Day(jobs_db.jobs[id].found_date) : id \in stored_ids}

\* C24 (per-day buckets follow found_date): for every day the count of the
\* day's bucket is the number of stored records whose found_date falls on
\* that day, and the bucket's count of a source is the number of those
\* records that came from the source -- a day without bucket counting as
\* zero -- also when midnight passes between the fetch of a record and its
\* insertion.
C24_DayBucketIsDayOfFoundDate ==
  program = "bot" =>
    \A day \in days_found \cup DOMAIN stats.daily_stats :
      LET bucket == IF day \in DOMAIN stats.daily_stats
                    THEN stats.daily_stats[day] ELSE EmptyDay
      IN /\ bucket.jobs_found = Cardinality(found_on(day))
         /\ \A source \in SiteNames :
              dict_get(bucket.sources, source)
                = Cardinality(found_on_from(day, source))

\* A record was fetched on one day and inserted on the next.
C24_Witness ==
  /\ program = "bot"
  /\ \E id \in stored_ids :
       /\ Day(jobs_db.jobs[id].found_date) < Day(now)
       /\ \E t \in threads :
            /\ pc[t] \in {"find", "notify"}
            /\ \E i \in 1..Len(new_jobs[t]) : new_jobs[t][i].id = id

(***************************************************************************)
(* Properties of a run without credentials                                 *)
(***************************************************************************)

\* C25 (a missing credential is detected before any work): while the
\* notification token or the chat id is missing, a cycle of the bot fetches
\* nothing (no list returned by the scrapers, no per-source metadata),
\* inserts nothing into the store and increments no counter of found jobs,
\* and a run of quick_fix.py neither writes its database nor sends
\* anything.
C25_NoWorkWithoutCredentials ==
  ~telegram_ok =>
    /\ program = "bot" =>
         /\ \A t \in threads : all_jobs[t] = <<>>
         /\ jobs_db.sources_stats = EmptyDict
         /\ stored_ids = {}
         /\ stats.total_jobs_found = 0
         /\ stats.daily_stats = EmptyDict
    /\ program = "quick_fix" => disk = NoData /\ chat = <<>>

\* A cycle without credentials ran to its end: it fetched, stored and
\* counted a job, sent nothing and saved.
C25_Witness ==
  /\ program = "bot"
  /\ ~telegram_ok
  /\ \A t \in threads : pc[t] = "idle"
  /\ disk.saved
  /\ stored_ids # {}
  /\ stats.total_jobs_found > 0
  /\ outbox = <<>>

(***************************************************************************)
(* Properties of the pipeline's hand-over file                             *)
(***************************************************************************)

\* The positions of the input whose row is complete, has a job_id the table
\* does not hold, and is the first row of the input with that job_id.
new_positions(cx, rows) ==
  {i \in rows_not_stored(cx, rows) :
     \A j \in 1..(i - 1) :
        MANDATORY \subseteq DOMAIN rows[j] => rows[j]["job_id"] # rows[i]["job_id"]}

\* The rows at the given positions, in input order.
RECURSIVE rows_at(_, _, _)
rows_at(rows, positions, i) ==
  IF i > Len(rows) THEN <<>>
  ELSE (IF i \in positions THEN <<rows[i]>> ELSE <<>>)
       \o rows_at(rows, positions, i + 1)

\* A step that is a run of clean.py which ended normally.
clean_run_done ==
  /\ program = "pipeline"
  /\ now' = now + 1
  /\ ret' = <<"clean", "done">>

\* A step that is a run of push.py.
push_run ==
  /\ program = "pipeline"
  /\ now' = now + 1
  /\ Len(ret') > 0
  /\ ret'[1] = "push"

\* C26 (jobs_latest.json holds the rows the run inserted): a run of clean.py
\* that ends normally writes to jobs_latest.json, in input order, exactly
\* the rows it appended to the jobs table, each with a job_id the table did
\* not hold before the run, and leaves every complete row of the input
\* stored; so a run over an input whose complete rows are all stored, as
\* after an earlier run on the same raw_jobs.json, leaves the table as it
\* is and writes the empty list; and a run of push.py that finds the empty
\* list sends no message.
C26_LatestIsNewlyInserted ==
  [][/\ clean_run_done =>
          LET newly == rows_at(raw_jobs_json.rows,
                               new_positions(sqlite, raw_jobs_json.rows), 1)
              before == Len(sqlite.jobs)
          IN /\ jobs_latest_json' = FileOf(newly)
             /\ Len(sqlite'.jobs) = before + Len(newly)
             /\ SubSeq(sqlite'.jobs, 1, before) = sqlite.jobs
             /\ \A k \in 1..Len(newly) :
                  /\ sqlite'.jobs[before + k].job_id = newly[k]["job_id"]
                  /\ sqlite'.jobs[before + k].url = newly[k]["url"]
                  /\ \A i \in 1..before : sqlite.jobs[i].job_id # newly[k]["job_id"]
             /\ rows_not_stored(sqlite', raw_jobs_json.rows) = {}
             /\ rows_not_stored(sqlite, raw_jobs_json.rows) = {} =>
                  /\ sqlite' = sqlite
                  /\ jobs_latest_json' = FileOf(<<>>)
     /\ (push_run /\ jobs_latest_json.exists /\ jobs_latest_json.rows = <<>>) =>
          chat' = chat]_vars

\* clean.py ran again on a raw_jobs.json whose rows it had stored: the table
\* holds them, jobs_latest.json holds the empty list, and the run of push.py
\* that followed (with its credentials set) was silent.
C26_Witness ==
  /\ program = "pipeline"
  /\ telegram_ok
  /\ ret = <<"push", "silent">>
  /\ raw_jobs_json.exists
  /\ \E i \in 1..Len(raw_jobs_json.rows) : MANDATORY \subseteq DOMAIN raw_jobs_json.rows[i]
  /\ rows_not_stored(sqlite, raw_jobs_json.rows) = {}
  /\ jobs_latest_json = FileOf(<<>>)
  /\ sqlite.jobs # <<>>

(***************************************************************************)
(* Properties of the notification batches across cycles                    *)
(***************************************************************************)

\* C27 (a job is announced in one cycle only): in sequential cycles that
\* all run to their end and save, no job id is in the batches of two
\* cycles -- the batches sent are pairwise disjoint, and the batch a cycle
\* is about to send shares no id with a batch sent before -- and every job
\* of a cycle's batch was absent from the store when the cycle began: the
\* store holds it with the found_date of this cycle.
C27_AnnouncedInOneCycleOnly ==
  program = "bot" =>
    /\ \A k, l \in 1..Len(outbox) :
         k # l => Range(outbox[k]) \cap Range(outbox[l]) = {}
    /\ \A t \in threads :
         pc[t] \in {"find", "insert", "notify"} =>
           \A i \in 1..Len(new_jobs[t]) :
             LET id == new_jobs[t][i].id
             IN /\ ~notified(id)
                /\ id \in stored_ids
                /\ jobs_db.jobs[id].found_date = now

\* The second cycle is about to announce a job while the first cycle's
\* batch was sent, and it passed over a job the first cycle had stored.
C27_Witness ==
  /\ program = "bot"
  /\ Len(outbox) = 1
  /\ \E t \in threads :
       /\ pc[t] = "notify"
       /\ new_jobs[t] # <<>>
       /\ stats.total_searches = 2
       /\ \E i \in 1..Len(filtered_jobs[t]) : refetched(t, i)

(***************************************************************************)
(* Properties of the active sites                                          *)
(***************************************************************************)

\* The sites that require authentication.
auth_sites == SiteNames \ site_names

\* The jobs of the list that came from the site.
jobs_from(jobs, name) == {i \in 1..Len(jobs) : jobs[i].source = name}

\* C28 (only active sites without authentication are fetched): whatever
\* /sites commands were handled, no site that requires authentication is in
\* active_sites, has source metadata or has a job in a scraped list; and a
\* run of scrape_all_sites returns no job of a site that is not in
\* active_sites when it runs and leaves the source metadata of such a site
\* as it was.
C28_OnlyActiveSitesFetched ==
  /\ [](program = "bot" =>
          \A name \in auth_sites :
            /\ name \notin Range(config.active_sites)
            /\ name \notin DOMAIN jobs_db.sources_stats
            /\ \A t \in threads : jobs_from(all_jobs[t], name) = {})
  /\ [][\A t \in threads :
          (program = "bot" /\ pc[t] = "scrape" /\ pc'[t] = "filter") =>
             \A name \in SiteNames \ Range(config.active_sites) :
               /\ jobs_from(all_jobs'[t], name) = {}
               /\ (name \in DOMAIN jobs_db'.sources_stats)
                    = (name \in DOMAIN jobs_db.sources_stats)
               /\ name \in DOMAIN jobs_db.sources_stats =>
                    jobs_db'.sources_stats[name] = jobs_db.sources_stats[name]]_vars

\* /sites was asked to enable the site that requires authentication and to
\* disable a site an earlier search had scraped; the next search has
\* scraped without that site.
C28_Witness ==
  /\ program = "bot"
  /\ \E k \in 1..Len(chat) :
       chat[k] = [text |-> "not found", site |-> "LinkedIn Music Jobs"]
  /\ \E k \in 1..Len(chat) :
       chat[k] = [text |-> "disabled", site |-> "Music Business Worldwide"]
  /\ "Music Business Worldwide" \in DOMAIN jobs_db.sources_stats
  /\ "Music Business Worldwide" \notin Range(config.active_sites)
  /\ stats.total_searches = 2
  /\ \E t \in threads : pc[t] = "filter"

====
